---- MODULE Spec2Model ----
(***************************************************************************)
(* Model of the recruitee-mcp JSON-RPC dispatcher (server.py) and of the   *)
(* part of the Recruitee HTTP client (client.py) that the dispatcher's     *)
(* handlers call.  A request is a decoded JSON value; handle_json_rpc      *)
(* either returns a response or raises a JSONRPCError.                      *)
(***************************************************************************)
EXTENDS Integers, Sequences, FiniteSets, TLC

(***************************************************************************)
(* Bounds of the model.                                                    *)
(***************************************************************************)
\* numeric request ids are 0..MaxId
MaxId == 1
\* numeric offer / candidate identifiers are 1..MaxEntityId
MaxEntityId == 1

(***************************************************************************)
(* JSON values as json.loads produces them: a tag and a payload.           *)
(***************************************************************************)
Null == [t |-> "null", v |-> "null"]
Str(s) == [t |-> "str", v |-> s]
Num(n) == [t |-> "num", v |-> n]
Bool(b) == [t |-> "bool", v |-> b]
Arr(s) == [t |-> "arr", v |-> s]
Obj(f) == [t |-> "obj", v |-> f]

\* marks a key that is left out of an object when the inputs are enumerated
Absent == [t |-> "absent", v |-> "absent"]

\* a dict literal: the keys of `pairs` whose value is not Absent
MkObj(pairs) ==
    LET present == {i \in DOMAIN pairs : pairs[i][2] # Absent}
        keys == {pairs[i][1] : i \in present}
    IN Obj([k \in keys |-> pairs[CHOOSE i \in present : pairs[i][1] = k][2]])

\* isinstance(x, Mapping)
IsMapping(x) == x.t = "obj"

\* key in d
Has(d, k) == k \in DOMAIN d.v

\* d.get(k)
Get(d, k) == IF k \in DOMAIN d.v THEN d.v[k] ELSE Null

\* Python truth value of a JSON value
Truthy(x) ==
    CASE x.t = "null" -> FALSE
      [] x.t = "str" -> x.v # ""
      [] x.t = "num" -> x.v # 0
      [] x.t = "bool" -> x.v
      [] x.t = "arr" -> Len(x.v) > 0
      [] x.t = "obj" -> DOMAIN x.v # {}

\* x == "literal" for a string literal
EqStr(x, s) == x.t = "str" /\ x.v = s

\* str(x) for the scalars; containers are only told apart by kind and emptiness
PyStr(x) ==
    CASE x.t = "null" -> "None"
      [] x.t = "str" -> x.v
      [] x.t = "num" -> ToString(x.v)
      [] x.t = "bool" -> IF x.v THEN "True" ELSE "False"
      [] x.t = "arr" -> IF Len(x.v) = 0 THEN "[]" ELSE "[...]"
      [] x.t = "obj" -> IF DOMAIN x.v = {} THEN "{}" ELSE "{...}"

\* type(x).__name__
TypeName(x) ==
    CASE x.t = "null" -> "NoneType"
      [] x.t = "str" -> "str"
      [] x.t = "num" -> "int"
      [] x.t = "bool" -> "bool"
      [] x.t = "arr" -> "list"
      [] x.t = "obj" -> "dict"

\* hash(x) succeeds: lists and dicts are unhashable
Hashable(x) == x.t \notin {"arr", "obj"}

\* sep.join(items), kept as the sequence of its pieces
RECURSIVE Join(_, _)
Join(items, sep) ==
    IF Len(items) = 0 THEN <<>>
    ELSE IF Len(items) = 1 THEN items
    ELSE <<Head(items), sep>> \o Join(Tail(items), sep)

\* the pieces of a text joined into one string
RECURSIVE Text(_)
Text(pieces) ==
    IF Len(pieces) = 0 THEN "" ELSE Head(pieces) \o Text(Tail(pieces))

\* text (a sequence of pieces) contains the piece s
Contains(text, s) == \E i \in DOMAIN text : text[i] = s

(***************************************************************************)
(* Outcomes of evaluating Python code: a value, or a raised exception.     *)
(* `calls` is the log of the HTTP requests issued on the way.              *)
(***************************************************************************)
Ok(value, calls) == [kind |-> "ok", value |-> value, calls |-> calls]

\* raise type(msg); status_code is only meaningful for RecruiteeAPIError
Raise(type, msg, status_code, calls) ==
    [kind |-> "raise", type |-> type, msg |-> msg,
     status_code |-> status_code, calls |-> calls]

\* class RecruiteeAPIError(RecruiteeError), class RecruiteeConnectionError(RecruiteeError)
IsRecruiteeError(type) ==
    type \in {"RecruiteeError", "RecruiteeAPIError", "RecruiteeConnectionError"}

(***************************************************************************)
(* The Recruitee client (client.py).                                       *)
(***************************************************************************)
\* self._client is None
None == <<>>

\* the client main() builds from the configuration
ConfiguredClient ==
    [company_id |-> "acme", api_token |-> "token",
     base_url |-> "https://api.recruitee.com", timeout |-> 30]

\* what urlopen and response.read() can do for one request.  An HTTP status
\* is never negative; 0 stands for an HTTPError without a usable code, the
\* case that `if status_code` and `status_code or -32000` provide for.
\* The timeout of urlopen can expire while the connection is made
\* (connect_timeout: urllib wraps the socket timeout in a URLError) or while
\* the response is awaited or read (read_timeout: the socket timeout is not
\* a URLError and no except clause of _request catches it).  undecodable is
\* a body that is not UTF-8: raw.decode raises UnicodeDecodeError, which is
\* not a json.JSONDecodeError.
HttpErrorStatuses == {0, 401, 404, 500}
RemotePayload == Obj([data |-> Num(1)])
RemoteBehaviours ==
    {[kind |-> "body", status |-> 200], [kind |-> "empty", status |-> 200],
     [kind |-> "invalid_json", status |-> 200],
     [kind |-> "undecodable", status |-> 200],
     [kind |-> "url_error", status |-> 0],
     [kind |-> "connect_timeout", status |-> 0],
     [kind |-> "read_timeout", status |-> 0]}
    \cup {[kind |-> "http_error", status |-> s] : s \in HttpErrorStatuses}

\* json.loads(raw.decode("utf-8")) for the body of a well-formed answer
RemoteBody(remote) ==
    IF "payload" \in DOMAIN remote THEN remote.payload ELSE RemotePayload

\* RecruiteeClient._build_url; params is the ordered list of (key, value)
\* pairs of the dict, the URL is kept as the sequence of its pieces (the
\* base URL of the model has no trailing slash and no path a leading one)
_build_url(client, path, params) ==
    LET filtered == SelectSeq(params, LAMBDA p : p[2] # Null)
        url == <<client.base_url, "/c/", client.company_id, "/">> \o path
    IN IF Len(filtered) > 0
       THEN url \o <<"?">>
                \o Join([i \in DOMAIN filtered |->
                            filtered[i][1] \o "=" \o PyStr(filtered[i][2])], "&")
       ELSE url

\* str(RecruiteeAPIError(status_code, message, url))
APIErrorText(status_code, message, url) ==
    <<"API request to ">> \o url \o <<" failed with">>
        \o (IF status_code # 0 THEN <<" status=", ToString(status_code)>> ELSE <<>>)
        \o <<".">>
        \o (IF message # "" THEN <<" body=", message>> ELSE <<>>)

\* str(RecruiteeConnectionError(message, url))
ConnectionErrorText(message, url) ==
    <<"Connection error while requesting ">> \o url \o <<": ", message>>

\* RecruiteeClient._request: one HTTP request, whose fate is `remote`.  The
\* record of the call keeps what the call gave back to its caller: the value
\* it returned, or None when an exception left it.
_request(client, op, method, path, params, data, remote) ==
    LET url == _build_url(client, path, params)
        call(returned) ==
            [op |-> op, method |-> method, url |-> url, data |-> data,
             authorization |-> IF client.api_token # ""
                               THEN <<"Bearer ", client.api_token>> ELSE <<>>,
             timeout |-> client.timeout, returned |-> returned]
    IN CASE remote.kind = "http_error" ->
              Raise("RecruiteeAPIError",
                    APIErrorText(remote.status, "error body", url),
                    remote.status, <<call(None)>>)
         [] remote.kind = "url_error" ->
              Raise("RecruiteeConnectionError",
                    ConnectionErrorText("unreachable", url), 0, <<call(None)>>)
         [] remote.kind = "connect_timeout" ->
              Raise("RecruiteeConnectionError",
                    ConnectionErrorText("timed out", url), 0, <<call(None)>>)
         [] remote.kind = "read_timeout" ->
              Raise("TimeoutError", <<"timed out">>, 0, <<call(None)>>)
         [] remote.kind = "undecodable" ->
              Raise("UnicodeDecodeError",
                    <<"'utf-8' codec can't decode byte 0xff in position 0: invalid start byte">>,
                    0, <<call(None)>>)
         [] remote.kind = "empty" -> Ok(Obj(<<>>), <<call(Obj(<<>>))>>)
         [] remote.kind = "invalid_json" ->
              Raise("RecruiteeError",
                    <<"Invalid JSON response returned by ">> \o url, 0,
                    <<call(None)>>)
         [] remote.kind = "body" ->
              Ok(RemoteBody(remote), <<call(RemoteBody(remote))>>)

\* mutant: a default limit is sent when none is given
list_offers_default_limit(client, state, limit, include_description, status, view_mode, offset, remote) ==
    _request(client, "list_offers", "GET", <<"offers">>,
             (IF Truthy(state) THEN <<(<<"scope", state>>)>> ELSE <<>>)
                 \o <<(<<"limit", IF limit # Null THEN limit ELSE Num(5)>>)>>,
             Null, remote)

\* RecruiteeClient.list_offers; params is the dict in insertion order
list_offers(client, state, limit, include_description, status, view_mode, offset, remote) ==
    LET params ==
            (IF Truthy(state) THEN <<(<<"scope", state>>)>> ELSE <<>>)
         \o (IF limit # Null THEN <<(<<"limit", limit>>)>> ELSE <<>>)
         \o (IF include_description
             THEN <<(<<"include_description", Str("true")>>)>> ELSE <<>>)
         \o (IF Truthy(status) THEN <<(<<"status", status>>)>> ELSE <<>>)
         \o (IF Truthy(view_mode) THEN <<(<<"view_mode", view_mode>>)>>
             ELSE <<>>)
         \o (IF offset # Null THEN <<(<<"offset", offset>>)>> ELSE <<>>)
    IN _request(client, "list_offers", "GET", <<"offers">>, params, Null, remote)

get_offer(client, offer_id, remote) ==
    _request(client, "get_offer", "GET", <<"offers/", PyStr(offer_id)>>,
             <<>>, Null, remote)

list_pipelines(client, remote) ==
    _request(client, "list_pipelines", "GET", <<"pipelines">>, <<>>, Null, remote)

search_candidates(client, query, page, limit, remote) ==
    LET params ==
            <<(<<"query", query>>)>>
         \o (IF page # Null THEN <<(<<"page", page>>)>> ELSE <<>>)
         \o (IF limit # Null THEN <<(<<"limit", limit>>)>> ELSE <<>>)
    IN _request(client, "search_candidates", "GET", <<"candidates">>,
                params, Null, remote)

get_candidate(client, candidate_id, remote) ==
    _request(client, "get_candidate", "GET",
             <<"candidates/", PyStr(candidate_id)>>, <<>>, Null, remote)

\* RecruiteeClient.create_candidate; kw holds the nine keyword arguments
create_candidate(client, kw, remote) ==
    LET candidate ==
            MkObj(<< <<"first_name", kw.first_name>>,
                     <<"last_name", kw.last_name>>,
                     <<"emails", Arr(<<kw.email>>)>>,
                     <<"phones", IF Truthy(kw.phone)
                                  THEN Arr(<<kw.phone>>) ELSE Absent>>,
                     <<"source", IF Truthy(kw.source) THEN kw.source ELSE Absent>>,
                     <<"offer_id", IF kw.offer_id # Null
                                    THEN kw.offer_id ELSE Absent>>,
                     <<"pipeline_id", IF kw.pipeline_id # Null
                                       THEN kw.pipeline_id ELSE Absent>>,
                     <<"notes", IF Truthy(kw.notes) THEN kw.notes ELSE Absent>>,
                     <<"custom_fields", IF Truthy(kw.custom_fields)
                                         THEN kw.custom_fields ELSE Absent>> >>)
        payload == Obj([candidate |-> candidate])
    IN _request(client, "create_candidate", "POST", <<"candidates">>,
                <<>>, payload, remote)

(***************************************************************************)
(* The JSON-RPC server (server.py).                                        *)
(***************************************************************************)
MCP_PROTOCOL_VERSION == "0.5"

\* RecruiteeMCPServer._require_client, as an outcome without a value
_require_client(client) ==
    IF client = None
    THEN Raise("RuntimeError", <<"Recruitee client is not configured">>, 0, <<>>)
    ELSE Ok(Null, <<>>)

\* arguments.get(...) on a value that is not a dict
NoGetAttribute(x) ==
    Raise("AttributeError",
          <<"'", TypeName(x), "' object has no attribute 'get'">>, 0, <<>>)

_tool_search_offers(client, arguments, remote) ==
    IF _require_client(client).kind = "raise" THEN _require_client(client)
    ELSE IF ~IsMapping(arguments) THEN NoGetAttribute(arguments)
    ELSE list_offers(client, Get(arguments, "state"), Get(arguments, "limit"),
                     Truthy(Get(arguments, "include_description")),
                     Null, Null, Null, remote)

_tool_get_offer(client, arguments, remote) ==
    IF ~IsMapping(arguments) THEN NoGetAttribute(arguments)
    ELSE IF Get(arguments, "offer_id") = Null
    THEN Raise("RecruiteeError", <<"'offer_id' is required">>, 0, <<>>)
    ELSE IF _require_client(client).kind = "raise" THEN _require_client(client)
    ELSE get_offer(client, Get(arguments, "offer_id"), remote)

_tool_search_candidates(client, arguments, remote) ==
    IF ~IsMapping(arguments) THEN NoGetAttribute(arguments)
    ELSE IF ~Truthy(Get(arguments, "query"))
    THEN Raise("RecruiteeError", <<"'query' is required">>, 0, <<>>)
    ELSE IF _require_client(client).kind = "raise" THEN _require_client(client)
    ELSE search_candidates(client, Get(arguments, "query"),
                           Get(arguments, "page"), Get(arguments, "limit"), remote)

\* mutant: the candidate is fetched before the identifier is looked at
_tool_get_candidate_fetch_first(client, arguments, remote) ==
    IF ~IsMapping(arguments) THEN NoGetAttribute(arguments)
    ELSE IF _require_client(client).kind = "raise" THEN _require_client(client)
    ELSE get_candidate(client, Get(arguments, "candidate_id"), remote)

_tool_get_candidate(client, arguments, remote) ==
    IF ~IsMapping(arguments) THEN NoGetAttribute(arguments)
    ELSE IF Get(arguments, "candidate_id") = Null
    THEN Raise("RecruiteeError", <<"'candidate_id' is required">>, 0, <<>>)
    ELSE IF _require_client(client).kind = "raise" THEN _require_client(client)
    ELSE get_candidate(client, Get(arguments, "candidate_id"), remote)

\* the `required` list of _tool_create_candidate
RequiredCandidateFields == <<"first_name", "last_name", "email">>

\* mutant: the scan stops at the first missing field
MissingFields_first_only(arguments) ==
    LET all == SelectSeq(RequiredCandidateFields,
                         LAMBDA f : ~Truthy(Get(arguments, f)))
    IN IF Len(all) = 0 THEN all ELSE <<Head(all)>>

\* [field for field in required if not arguments.get(field)]
MissingFields(arguments) ==
    SelectSeq(RequiredCandidateFields, LAMBDA f : ~Truthy(Get(arguments, f)))

_tool_create_candidate(client, arguments, remote) ==
    IF ~IsMapping(arguments) THEN NoGetAttribute(arguments)
    ELSE IF Len(MissingFields(arguments)) > 0
    THEN Raise("RecruiteeError",
               <<"Missing required fields: ">>
                   \o Join(MissingFields(arguments), ", "), 0, <<>>)
    ELSE IF _require_client(client).kind = "raise" THEN _require_client(client)
    ELSE create_candidate(client,
            [first_name |-> Get(arguments, "first_name"),
             last_name |-> Get(arguments, "last_name"),
             email |-> Get(arguments, "email"),
             phone |-> Get(arguments, "phone"),
             source |-> Get(arguments, "source"),
             offer_id |-> Get(arguments, "offer_id"),
             pipeline_id |-> Get(arguments, "pipeline_id"),
             notes |-> Get(arguments, "notes"),
             custom_fields |-> Get(arguments, "custom_fields")], remote)

\* self._tools: name, description and the schema's required list, in
\* insertion order
_tools ==
    << [name |-> "search_offers",
        description |-> "List job offers for the company.",
        required |-> <<>>],
       [name |-> "get_offer",
        description |-> "Fetch a single offer by identifier.",
        required |-> <<"offer_id">>],
       [name |-> "search_candidates",
        description |-> "Search candidates by text query.",
        required |-> <<"query">>],
       [name |-> "get_candidate",
        description |-> "Fetch a candidate by identifier.",
        required |-> <<"candidate_id">>],
       [name |-> "create_candidate",
        description |-> "Create a new candidate record.",
        required |-> <<"first_name", "last_name", "email">>] >>

ToolNames == {_tools[i].name : i \in DOMAIN _tools}

\* tool.handler(arguments) for the tool registered under `name`
ToolHandler(name, client, arguments, remote) ==
    CASE name = "search_offers" -> _tool_search_offers(client, arguments, remote)
      [] name = "get_offer" -> _tool_get_offer(client, arguments, remote)
      [] name = "search_candidates" ->
            _tool_search_candidates(client, arguments, remote)
      [] name = "get_candidate" -> _tool_get_candidate(client, arguments, remote)
      [] name = "create_candidate" ->
            _tool_create_candidate(client, arguments, remote)

\* mutant: the content item is typed as text
_json_content_text(data) == Obj([type |-> Str("text"), data |-> data])

_json_content(data) == Obj([type |-> Str("application/json"), data |-> data])

_handle_initialize ==
    Obj([protocolVersion |-> Str(MCP_PROTOCOL_VERSION),
         serverInfo |-> Obj([name |-> Str("recruitee-mcp"),
                             version |-> Str("0.1.0")]),
         capabilities |->
             Obj([resources |-> Obj([list |-> Bool(TRUE), read |-> Bool(TRUE)]),
                  tools |-> Obj([list |-> Bool(TRUE), call |-> Bool(TRUE)])])])

_handle_list_resources(params) ==
    Obj([resources |-> Arr(<<
        Obj([uri |-> Str("recruitee://offers"), name |-> Str("Job offers"),
             description |->
                 Str("Published job offers for the configured company.")]),
        Obj([uri |-> Str("recruitee://pipelines"), name |-> Str("Pipelines"),
             description |-> Str("Recruiting pipelines and stages.")]) >>)])

\* mutant: every URI is answered with the offers
_handle_read_resource_offers_only(client, params, remote) ==
    LET data ==
            IF _require_client(client).kind = "raise" THEN _require_client(client)
            ELSE list_offers(client, Null, Null, TRUE, Null, Null, Null, remote)
    IN IF data.kind = "raise" THEN data
       ELSE Ok(Obj([contents |-> Arr(<<_json_content(data.value)>>)]), data.calls)

_handle_read_resource(client, params, remote) ==
    LET uri == Get(params, "uri")
        data ==
            IF _require_client(client).kind = "raise" THEN _require_client(client)
            ELSE IF EqStr(uri, "recruitee://offers")
            THEN list_offers(client, Null, Null, TRUE, Null, Null, Null, remote)
            ELSE IF EqStr(uri, "recruitee://pipelines")
            THEN list_pipelines(client, remote)
            ELSE Raise("RecruiteeError",
                       <<"Unsupported resource URI: ", PyStr(uri)>>, 0, <<>>)
    IN IF data.kind = "raise" THEN data
       ELSE Ok(Obj([contents |-> Arr(<<_json_content(data.value)>>)]), data.calls)

\* the catalog that _handle_list_tools builds from a tool table
ToolCatalog(table) ==
    Obj([tools |-> Arr([i \in DOMAIN table |->
            Obj([name |-> Str(table[i].name),
                 description |-> Str(table[i].description),
                 inputSchema |->
                     Obj([type |-> Str("object"),
                          required |-> Arr([j \in DOMAIN table[i].required |->
                                              Str(table[i].required[j])])])])])])

_handle_list_tools == ToolCatalog(_tools)

_handle_call_tool(client, params, remote) ==
    LET name == Get(params, "name")
        arguments == IF Truthy(Get(params, "arguments"))
                     THEN Get(params, "arguments") ELSE Obj(<<>>)
        result == ToolHandler(name.v, client, arguments, remote)
    IN IF ~Hashable(name)
       THEN Raise("TypeError",
                  <<"unhashable type: '", TypeName(name), "'">>, 0, <<>>)
       ELSE IF ~(name.t = "str" /\ name.v \in ToolNames)
       THEN Raise("RecruiteeError", <<"Unknown tool: ", PyStr(name)>>, 0, <<>>)
       ELSE IF result.kind = "raise" THEN result
       ELSE Ok(Obj([content |-> Arr(<<_json_content(result.value)>>)]),
               result.calls)

_response(request_id, result) ==
    [jsonrpc |-> "2.0", id |-> request_id, result |-> result]

\* mutant: the error response loses the request id
_error_without_id(request_id, code, message) ==
    [jsonrpc |-> "2.0", id |-> Null,
     error |-> [code |-> code, message |-> message]]

_error(request_id, code, message) ==
    [jsonrpc |-> "2.0", id |-> request_id,
     error |-> [code |-> code, message |-> message]]

\* JSONRPCError(code, message, data=data); data = Null stands for None
JSONRPCError(code, message, data) ==
    [type |-> "JSONRPCError", code |-> code, message |-> message, data |-> data]

\* JSONRPCError.to_response
to_response(exc, request_id) ==
    [jsonrpc |-> "2.0",
     error |-> IF exc.data # Null
               THEN [code |-> exc.code, message |-> exc.message, data |-> exc.data]
               ELSE [code |-> exc.code, message |-> exc.message],
     id |-> request_id]

\* what a call of handle_json_rpc or _dispatch does: it returns a response,
\* or an exception leaves it.  `invoked` lists the method handlers entered,
\* each with the params it was given; `caught` is the exception that an
\* except clause of _dispatch caught (None when there was none).
Returned(response, calls, invoked, caught) ==
    [kind |-> "return", response |-> response, calls |-> calls,
     invoked |-> invoked, caught |-> caught]

Raised(exc) ==
    [kind |-> "raise", exc |-> exc, calls |-> <<>>, invoked |-> <<>>,
     caught |-> None]

BuiltinMethods ==
    {"initialize", "ping", "list_resources", "read_resource", "list_tools",
     "call_tool"}

\* mutant: the message does not name the method
UnknownMethod_unnamed(request_id, method) ==
    _error(request_id, -32601, <<"Unknown method">>)

\* the last statement of the try block of _dispatch
UnknownMethod(request_id, method) ==
    _error(request_id, -32601, <<"Unknown method: ", PyStr(method)>>)

\* the try block of _dispatch: the response it returns, or the exception
\* that a handler raised in it
TryBlock(client, request_id, method, params, remote) ==
    LET wrap(r) == IF r.kind = "raise" THEN r
                   ELSE Ok(_response(request_id, r.value), r.calls)
    IN CASE EqStr(method, "initialize") -> wrap(Ok(_handle_initialize, <<>>))
         [] EqStr(method, "ping") -> wrap(Ok(Str("pong"), <<>>))
         [] EqStr(method, "list_resources") ->
               wrap(Ok(_handle_list_resources(params), <<>>))
         [] EqStr(method, "read_resource") ->
               wrap(_handle_read_resource(client, params, remote))
         [] EqStr(method, "list_tools") -> wrap(Ok(_handle_list_tools, <<>>))
         [] EqStr(method, "call_tool") ->
               wrap(_handle_call_tool(client, params, remote))
         [] OTHER -> Ok(UnknownMethod(request_id, method), <<>>)

\* mutant: the clause for the base class RecruiteeError comes first and
\* shadows the clauses of its subclasses
ExceptClauses_base_class_first(request_id, r) ==
    IF IsRecruiteeError(r.type)
    THEN _error(request_id, -32001, r.msg)
    ELSE _error(request_id, -32603, <<"Unexpected error: ">> \o r.msg)

\* mutant: the catch-all clause drops the text of the exception
ExceptClauses_without_text(request_id, r) ==
    IF r.type = "RecruiteeAPIError"
    THEN _error(request_id,
                IF r.status_code # 0 THEN r.status_code ELSE -32000, r.msg)
    ELSE IF r.type = "RecruiteeConnectionError"
    THEN _error(request_id, -32002, r.msg)
    ELSE IF IsRecruiteeError(r.type)
    THEN _error(request_id, -32001, r.msg)
    ELSE _error(request_id, -32603, <<"Unexpected error">>)

\* the except clauses of _dispatch, in their order; r is the raised exception
ExceptClauses(request_id, r) ==
    IF r.type = "RecruiteeAPIError"
    THEN _error(request_id,
                IF r.status_code # 0 THEN r.status_code ELSE -32000, r.msg)
    ELSE IF r.type = "RecruiteeConnectionError"
    THEN _error(request_id, -32002, r.msg)
    ELSE IF IsRecruiteeError(r.type)
    THEN _error(request_id, -32001, r.msg)
    ELSE _error(request_id, -32603, <<"Unexpected error: ">> \o r.msg)

\* mutant: no `except Exception` clause, an exception that is not a
\* RecruiteeError leaves _dispatch
_dispatch_without_catch_all(client, request, remote) ==
    LET method == Get(request, "method")
        request_id == Get(request, "id")
        params == IF Truthy(Get(request, "params"))
                  THEN Get(request, "params") ELSE Obj(<<>>)
        r == TryBlock(client, request_id, method, params, remote)
        invoked == IF method.t = "str" /\ method.v \in BuiltinMethods
                   THEN <<[method |-> method.v, params |-> params]>>
                   ELSE <<>>
    IN IF r.kind = "ok"
       THEN Returned(r.value, r.calls, invoked, None)
       ELSE IF IsRecruiteeError(r.type)
       THEN Returned(ExceptClauses(request_id, r), r.calls, invoked,
                     [type |-> r.type, msg |-> r.msg,
                      status_code |-> r.status_code])
       ELSE [kind |-> "raise",
             exc |-> [type |-> r.type, code |-> 0, message |-> r.msg,
                      data |-> Null],
             calls |-> r.calls, invoked |-> invoked, caught |-> None]

_dispatch(client, request, remote) ==
    LET method == Get(request, "method")
        request_id == Get(request, "id")
        params == IF Truthy(Get(request, "params"))
                  THEN Get(request, "params") ELSE Obj(<<>>)
        r == TryBlock(client, request_id, method, params, remote)
        invoked == IF method.t = "str" /\ method.v \in BuiltinMethods
                   THEN <<[method |-> method.v, params |-> params]>>
                   ELSE <<>>
    IN IF r.kind = "ok"
       THEN Returned(r.value, r.calls, invoked, None)
       ELSE Returned(ExceptClauses(request_id, r), r.calls, invoked,
                     [type |-> r.type, msg |-> r.msg,
                      status_code |-> r.status_code])

\* the checks of handle_json_rpc, each giving the JSONRPCError it raises or
\* None when it passes
CheckObject(request) ==
    IF ~IsMapping(request)
    THEN JSONRPCError(-32600, <<"Invalid Request">>,
                      Str("Request must be an object"))
    ELSE None

CheckJsonrpc(request) ==
    IF ~EqStr(Get(request, "jsonrpc"), "2.0")
    THEN JSONRPCError(-32600, <<"Invalid Request">>,
                      Str("jsonrpc must be '2.0'"))
    ELSE None

\* mutant: only a missing id is rejected, a null id is let through
CheckId_missing_only(request) ==
    IF ~Has(request, "id")
    THEN JSONRPCError(-32600, <<"Invalid Request">>, Str("Missing id"))
    ELSE None

CheckId(request) ==
    IF ~Has(request, "id")
    THEN JSONRPCError(-32600, <<"Invalid Request">>, Str("Missing id"))
    ELSE IF Get(request, "id") = Null
    THEN JSONRPCError(-32600, <<"Invalid Request">>,
                      Str("id must not be null"))
    ELSE None

CheckMethod(request) ==
    LET method_name == Get(request, "method")
    IN IF ~(method_name.t = "str" /\ Truthy(method_name))
       THEN JSONRPCError(-32600, <<"Invalid Request">>,
                         Str("Method must be a non-empty string"))
       ELSE None

\* mutant: a list is accepted as params, like a dict
CheckParams_accepts_list(request) ==
    LET raw_params == Get(request, "params")
    IN IF raw_params = Null THEN None
       ELSE IF IsMapping(raw_params) \/ raw_params.t = "arr" THEN None
       ELSE JSONRPCError(-32602, <<"Invalid params">>,
                         Str("Params must be an object"))

CheckParams(request) ==
    LET raw_params == Get(request, "params")
    IN IF raw_params = Null THEN None
       ELSE IF IsMapping(raw_params) THEN None
       ELSE JSONRPCError(-32602, <<"Invalid params">>,
                         Str("Params must be an object"))

\* mutant: params is checked before jsonrpc, id and method
EnvelopeError_params_first(request) ==
    IF CheckObject(request) # None THEN CheckObject(request)
    ELSE IF CheckParams(request) # None THEN CheckParams(request)
    ELSE IF CheckJsonrpc(request) # None THEN CheckJsonrpc(request)
    ELSE IF CheckId(request) # None THEN CheckId(request)
    ELSE CheckMethod(request)

\* the first check of handle_json_rpc that fails, in the order of the code
EnvelopeError(request) ==
    IF CheckObject(request) # None THEN CheckObject(request)
    ELSE IF CheckJsonrpc(request) # None THEN CheckJsonrpc(request)
    ELSE IF CheckId(request) # None THEN CheckId(request)
    ELSE IF CheckMethod(request) # None THEN CheckMethod(request)
    ELSE CheckParams(request)

handle_json_rpc(client, request, remote) ==
    LET raw_params == Get(request, "params")
        params == IF raw_params = Null THEN Obj(<<>>) ELSE raw_params
        normalized_request ==
            Obj([k \in DOMAIN request.v \cup {"params"} |->
                   IF k = "params" THEN params ELSE request.v[k]])
    IN IF EnvelopeError(request) # None
       THEN Raised(EnvelopeError(request))
       ELSE _dispatch(client, normalized_request, remote)

(***************************************************************************)
(* The transport adapters' call of the dispatcher.                         *)
(***************************************************************************)
\* handle_json_rpc was not called for the payload
NotCalled ==
    [kind |-> "not_called", calls |-> <<>>, invoked |-> <<>>, caught |-> None]

\* the except clauses around mcp_server.handle_json_rpc(payload), shared by
\* JSONRPCRequestHandler._dispatch_request and run_stdio
AdapterResponse(outcome, request_id) ==
    IF outcome.kind = "return" THEN outcome.response
    ELSE IF outcome.exc.type = "JSONRPCError"
    THEN to_response(outcome.exc, request_id)
    ELSE to_response(JSONRPCError(-32603, <<"Internal error">>,
                                  Str(Text(outcome.exc.message))), request_id)

\* request_payload.get("id") if isinstance(request_payload, Mapping) else None
PayloadId(payload) == IF IsMapping(payload) THEN Get(payload, "id") ELSE Null

(***************************************************************************)
(* Inputs: the decoded payloads a client can send.                         *)
(***************************************************************************)
JsonrpcValues == {Absent, Str("2.0"), Str("1.0"), Num(2)}

IdValues ==
    {Absent, Null, Bool(FALSE), Str(""), Str("request-1")}
        \cup {Num(n) : n \in 0..MaxId}

MethodValues ==
    {Absent, Null, Str(""), Num(1), Str("does_not_exist"), Str("tools/list")}
        \cup {Str(m) : m \in BuiltinMethods}

\* params that no handler looks into
ShallowParams ==
    {Absent, Null, Str("x"), Str(""), Num(0), Num(1), Bool(TRUE), Bool(FALSE),
     Arr(<<>>), Arr(<<Str("x")>>), Obj(<<>>)}

EntityIds == {Num(n) : n \in 1..MaxEntityId} \cup {Str("abc")}

NameFieldValues == {Absent, Null, Str(""), Str("Jane")}

\* the arguments of a call_tool request
ToolArguments ==
    {Absent, Null, Arr(<<>>), Arr(<<Str("x")>>), Str("x"), Num(1)}
        \cup {MkObj(<< <<"first_name", f>>, <<"last_name", l>>, <<"email", e>> >>) :
                f \in NameFieldValues, l \in NameFieldValues, e \in NameFieldValues}
        \cup {MkObj(<< <<"offer_id", o>> >>) : o \in EntityIds \cup {Null}}
        \cup {MkObj(<< <<"candidate_id", c>> >>) : c \in EntityIds \cup {Null}}
        \cup {MkObj(<< <<"query", q>>, <<"limit", l>> >>) :
                q \in {Str(""), Str("dev"), Null}, l \in {Absent, Num(5)}}
        \cup {MkObj(<< <<"state", s>>, <<"limit", l>>,
                       <<"include_description", d>> >>) :
                s \in {Absent, Str("published")}, l \in {Absent, Num(5)},
                d \in {Absent, Bool(TRUE)}}

ToolNameValues ==
    {Absent, Null, Num(1), Bool(TRUE), Arr(<<>>), Arr(<<Str("get_offer")>>),
     Obj(<<>>), Str("no_such_tool")}
        \cup {Str(n) : n \in ToolNames}

\* params that read_resource and call_tool look into
DeepParams ==
    {MkObj(<< <<"uri", u>> >>) :
        u \in {Str("recruitee://offers"), Str("recruitee://pipelines"),
               Str("recruitee://other"), Num(1)}}
    \cup {MkObj(<< <<"name", n>>, <<"arguments", a>> >>) :
            n \in ToolNameValues, a \in ToolArguments}

Envelope(j, i, m, p) ==
    MkObj(<< <<"jsonrpc", j>>, <<"id", i>>, <<"method", m>>, <<"params", p>> >>)

\* decoded payloads: any JSON value, not only objects
Payloads ==
    {Null, Num(1), Str("ping"), Arr(<<>>), Arr(<<Str("ping")>>)}
        \cup {Envelope(j, i, m, p) :
                j \in JsonrpcValues, i \in IdValues, m \in MethodValues,
                p \in ShallowParams}
        \cup {Envelope(Str("2.0"), i, m, p) :
                i \in {Absent, Null, Num(0), Str("request-1")},
                m \in {Str("read_resource"), Str("call_tool"),
                       Str("does_not_exist")},
                p \in DeepParams}

(***************************************************************************)
(* The state machine: a server serving one payload after the other.        *)
(* Nothing of a request outlives its response, so every payload is served *)
(* from the idle state.                                                     *)
(***************************************************************************)
VARIABLES
    client,    \* self._client of the RecruiteeMCPServer
    request,   \* the payload handed to the adapter last (None before the first)
    outcome,   \* what handle_json_rpc did for it
    response,  \* the response the adapter produced for it
    exchange,  \* the HTTP exchange in progress (None outside the HTTP server)
    stdio,     \* the stdio loop: lines read, loop locals, lines written
    pager,     \* a pagination iterator of the client (None when there is none)
    builder,   \* a SearchFilters builder and the lists built from it (None when there is none)
    invocation, \* a call of a client method made by library code (None when there is none)
    tools,     \* self._tools of the RecruiteeMCPServer
    workers,   \* the worker threads of the threading HTTP server (None when there are none)
    wrapper    \* the wrapper module: its global request_id and its threads (None when not loaded)

vars == <<client, request, outcome, response, exchange, stdio, pager, builder, invocation, tools, workers, wrapper>>

\* the parts of the state that serving a decoded payload leaves alone
others == <<client, exchange, stdio, pager, builder, invocation, tools, workers, wrapper>>

\* RecruiteeMCPServer(client): the server with or without a client
Init ==
    /\ client \in {None, ConfiguredClient}
    /\ request = None
    /\ outcome = NotCalled
    /\ response = None
    /\ exchange = None
    /\ stdio = None
    /\ pager = None
    /\ builder = None
    /\ invocation = None
    /\ tools = _tools
    /\ workers = None
    /\ wrapper = None

\* JSONRPCRequestHandler._dispatch_request(payload), for any decoded payload
\* and any behaviour of the remote API
_dispatch_request ==
    /\ request = None
    /\ \E payload \in Payloads, remote \in RemoteBehaviours :
          /\ request' = payload
          /\ IF ~IsMapping(payload)
             THEN /\ outcome' = NotCalled
                  /\ response' = to_response(
                         JSONRPCError(-32600, <<"Invalid Request">>,
                                      Str("Request must be an object")), Null)
             ELSE /\ outcome' = handle_json_rpc(client, payload, remote)
                  /\ response' = AdapterResponse(outcome', Get(payload, "id"))
    /\ UNCHANGED others

\* run_stdio: the handling of one line that json.loads decoded to `payload`
run_stdio ==
    /\ request = None
    /\ \E payload \in Payloads, remote \in RemoteBehaviours :
          /\ request' = payload
          /\ outcome' = handle_json_rpc(client, payload, remote)
          /\ response' = AdapterResponse(outcome', PayloadId(payload))
    /\ UNCHANGED others

\* the adapter has written the response and drops the request: nothing of
\* it is kept in the server
Finish ==
    /\ request # None
    /\ request' = None
    /\ outcome' = NotCalled
    /\ response' = None
    /\ UNCHANGED others

Next ==
    \/ _dispatch_request
    \/ run_stdio
    \/ Finish

Spec == Init /\ [][Next]_vars

(***************************************************************************)
(* The transports (http_server.py, main.py, RecruiteeMCPServer.run): what  *)
(* happens between the bytes a peer sends and the payload the dispatcher   *)
(* gets.                                                                    *)
(***************************************************************************)
\* bound: the number of lines the stdio loop reads in a run
MaxLines == 3

\* A text on the wire (an HTTP body, a stdio line) is kept by what
\* json.loads makes of it: "json" is the JSON text of `value`; "garbled" is
\* text that is no JSON; "too_deep" is JSON nested deeper than the
\* interpreter's recursion limit; "undecodable" is bytes in no Unicode
\* encoding (a body only: a line is text already); "blank" is white space.
\* size is the number of bytes.
Wire(kind, value, size) == [kind |-> kind, value |-> value, size |-> size]

\* json.loads
json_loads(text) ==
    CASE text.kind = "json" -> Ok(text.value, <<>>)
      [] text.kind \in {"garbled", "blank"} ->
            Raise("JSONDecodeError", <<"Expecting value">>, 0, <<>>)
      [] text.kind = "undecodable" ->
            Raise("UnicodeDecodeError",
                  <<"'utf-8' codec can't decode byte 0xff">>, 0, <<>>)
      [] text.kind = "too_deep" ->
            Raise("RecursionError",
                  <<"maximum recursion depth exceeded">>, 0, <<>>)

\* the value of a decimal digit
DigitOf ==
    ("0" :> 0) @@ ("1" :> 1) @@ ("2" :> 2) @@ ("3" :> 3) @@ ("4" :> 4)
        @@ ("5" :> 5) @@ ("6" :> 6) @@ ("7" :> 7) @@ ("8" :> 8) @@ ("9" :> 9)

RECURSIVE DigitsValue(_)
DigitsValue(chars) ==
    IF chars = <<>> THEN 0
    ELSE 10 * DigitsValue(SubSeq(chars, 1, Len(chars) - 1))
             + DigitOf[chars[Len(chars)]]

\* a header value, kept as the sequence of its characters
Chars(chars) == [t |-> "chars", v |-> chars]

\* int(text) for a header value; signs, white space and underscores are not
\* among the values sent here
int(text) ==
    IF text.v # <<>> /\ \A i \in DOMAIN text.v : text.v[i] \in DOMAIN DigitOf
    THEN Ok(DigitsValue(text.v), <<>>)
    ELSE Raise("ValueError",
               <<"invalid literal for int() with base 10">>, 0, <<>>)

\* one HTTP response on the connection
HttpResponse(status, content_type, body) ==
    [status |-> status, content_type |-> content_type, body |-> body]

\* BaseHTTPRequestHandler.send_error(code, message)
send_error(code, message) ==
    HttpResponse(code, "text/html;charset=utf-8", Str(message))

\* JSONRPCRequestHandler._write_json_response(payload)
_write_json_response(payload) == HttpResponse(200, "application/json", payload)

\* mutant: a missing Content-Length is answered like an invalid one
LengthError_missing_is_invalid(header) ==
    IF header = Absent \/ int(header).kind = "raise"
    THEN send_error(400, "Invalid Content-Length header")
    ELSE None

\* the first lines of do_POST: the error response for the Content-Length
\* header, None when the header is a number
LengthError(header) ==
    IF header = Absent
    THEN send_error(411, "Missing Content-Length header")
    ELSE IF int(header).kind = "raise"
    THEN send_error(400, "Invalid Content-Length header")
    ELSE None

\* JSONRPCError(-32700, "Parse error").to_response(None)
ParseError == to_response(JSONRPCError(-32700, <<"Parse error">>, Null), Null)

\* the exception that left a handler or a loop
Uncaught(type) == [type |-> type]

\* HTTP exchange: the request line and header the handler saw, the body it
\* read (None when it read none), the responses it wrote, and the exception
\* that ended it (None when it returned)
Exchange(method, path, header, body, written, raised) ==
    [method |-> method, path |-> path, header |-> header, body |-> body,
     written |-> written, raised |-> raised]

\* RecruiteeMCPServer has no attribute describe_protocol: the lookup in
\* _handshake_payload raises
describe_protocol ==
    Raise("AttributeError",
          <<"'RecruiteeMCPServer' object has no attribute 'describe_protocol'">>,
          0, <<>>)

\* _handshake_payload(mcp_server)
_handshake_payload ==
    LET protocol_description == describe_protocol
    IN IF protocol_description.kind = "raise" THEN protocol_description
       ELSE Ok(Obj([status |-> Str("ok"), name |-> Str("recruitee-mcp"),
                    message |-> Str("Send POST requests with JSON-RPC 2.0 payloads to interact with the Recruitee MCP server."),
                    protocol |-> Get(protocol_description.value, "protocol"),
                    protocol_version |->
                        Get(protocol_description.value, "protocol_version"),
                    capabilities |->
                        Get(protocol_description.value, "capabilities"),
                    endpoints |-> Obj([jsonrpc |-> Obj([path |-> Str("/")])]),
                    version |-> Null]), <<>>)

HEALTH_CHECK_PATH == <<"/health">>
HANDSHAKE_PATHS == {<<"/">>, <<"/mcp">>, <<"/openai-mcp">>}
MCPO_MANIFEST_PATH == <<"/.well-known/mcp.json">>
\* the text of the icon, abridged
FAVICON_SVG == Str("<svg/>")

\* path.rstrip("/"); a path is kept as the sequence of its pieces, a piece
\* being "/" or text that does not end with "/"
RECURSIVE rstrip(_)
rstrip(path) ==
    IF path # <<>> /\ path[Len(path)] = "/"
    THEN rstrip(SubSeq(path, 1, Len(path) - 1))
    ELSE path

\* the body of do_GET: the responses written and the exception raised
GetOutcome(path) ==
    LET normalized_path == IF rstrip(path) = <<>> THEN <<"/">> ELSE rstrip(path)
        handshake == _handshake_payload
    IN IF path = HEALTH_CHECK_PATH
       THEN [written |-> <<_write_json_response(Obj([status |-> Str("ok")]))>>,
             raised |-> None]
       ELSE IF path \in {<<"/favicon.svg">>, <<"/favicon.ico">>}
       THEN [written |-> <<HttpResponse(200, "image/svg+xml", FAVICON_SVG)>>,
             raised |-> None]
       ELSE IF normalized_path \in HANDSHAKE_PATHS
                  \/ normalized_path = rstrip(MCPO_MANIFEST_PATH)
       THEN IF handshake.kind = "raise"
            THEN [written |-> <<>>, raised |-> Uncaught(handshake.type)]
            ELSE [written |-> <<_write_json_response(handshake.value)>>,
                  raised |-> None]
       ELSE [written |-> <<send_error(404, "Unknown endpoint")>>,
             raised |-> None]

\* the payloads sent over the transports
WirePayloads ==
    {Num(1), Arr(<<Str("ping")>>),
     Envelope(Str("2.0"), Num(1), Str("ping"), Absent),
     Envelope(Str("2.0"), Absent, Str("ping"), Absent),
     Envelope(Str("1.0"), Str("request-1"), Str("ping"), Absent),
     Envelope(Str("2.0"), Num(1), Str("ping"), Arr(<<>>)),
     Envelope(Str("2.0"), Num(0), Str("does_not_exist"), Absent),
     Envelope(Str("2.0"), Str("request-1"), Str("read_resource"),
              MkObj(<< <<"uri", Str("recruitee://offers")>> >>)),
     Envelope(Str("2.0"), Str("request-1"), Str("call_tool"),
              MkObj(<< <<"name", Arr(<<>>)>>, <<"arguments", Absent>> >>))}

\* the bodies a peer posts
Bodies ==
    {Wire("json", p, 45) : p \in WirePayloads}
        \cup {Wire("garbled", Null, 8), Wire("garbled", Null, 0),
              Wire("undecodable", Null, 3), Wire("too_deep", Null, 45)}

\* the Content-Length headers a peer sends: none, or the characters of the
\* value
ContentLengthHeaders ==
    {Absent}
        \cup {Chars(c) : c \in {<<>>, <<"a", "b", "c">>, <<"1", ".", "5">>,
                                <<"8", "x">>, <<"0">>, <<"3">>, <<"8">>,
                                <<"4", "5">>}}

\* the paths a peer gets
GetPaths ==
    {<<"/health">>, <<"/favicon.ico">>, <<"/favicon.svg">>, <<"/">>,
     <<"/mcp">>, <<"/mcp", "/">>, <<"/openai-mcp">>,
     <<"/.well-known/mcp.json">>, <<"/.well-known/mcp.json", "/">>,
     <<"/health", "/">>, <<"/nope">>}

\* JSONRPCRequestHandler._dispatch_request: the response for a decoded
\* payload, given what handle_json_rpc did for it
DispatchedResponse(payload, done) ==
    IF ~IsMapping(payload)
    THEN to_response(JSONRPCError(-32600, <<"Invalid Request">>,
                                  Str("Request must be an object")), Null)
    ELSE AdapterResponse(done, Get(payload, "id"))

\* JSONRPCRequestHandler.do_POST, for any header, any body of the announced
\* length and any behaviour of the remote API
do_POST ==
    /\ stdio = None
    /\ exchange = None
    /\ \E header \in ContentLengthHeaders, body \in Bodies,
          remote \in RemoteBehaviours :
          LET request_payload == json_loads(body)
          IN IF LengthError(header) # None
             THEN /\ exchange' = Exchange("POST", <<"/">>, header, None,
                                          <<LengthError(header)>>, None)
                  /\ UNCHANGED <<request, outcome, response>>
             ELSE /\ int(header).value = body.size
                  /\ IF request_payload.kind = "raise"
                     THEN /\ UNCHANGED <<request, outcome>>
                          /\ IF request_payload.type = "JSONDecodeError"
                             THEN /\ response' = ParseError
                                  /\ exchange' =
                                       Exchange("POST", <<"/">>, header, body,
                                           <<_write_json_response(ParseError)>>,
                                           None)
                             ELSE /\ response' = None
                                  /\ exchange' =
                                       Exchange("POST", <<"/">>, header, body,
                                                <<>>,
                                                Uncaught(request_payload.type))
                     ELSE /\ request' = request_payload.value
                          /\ outcome' =
                               IF ~IsMapping(request_payload.value)
                               THEN NotCalled
                               ELSE handle_json_rpc(client,
                                        request_payload.value, remote)
                          /\ response' =
                               DispatchedResponse(request_payload.value,
                                                  outcome')
                          /\ exchange' =
                               Exchange("POST", <<"/">>, header, body,
                                        <<_write_json_response(response')>>,
                                        None)
    /\ UNCHANGED <<client, stdio, pager, builder, invocation, tools, workers, wrapper>>

\* JSONRPCRequestHandler.do_GET
do_GET ==
    /\ stdio = None
    /\ exchange = None
    /\ \E path \in GetPaths :
          exchange' = Exchange("GET", path, Absent, None,
                               GetOutcome(path).written, GetOutcome(path).raised)
    /\ UNCHANGED <<client, request, outcome, response, stdio, pager, builder, invocation, tools, workers, wrapper>>

\* the handler is over, by return or by exception, and the connection is
\* closed; the server keeps nothing of the exchange
finish_request ==
    /\ exchange # None
    /\ exchange' = None
    /\ request' = None
    /\ outcome' = NotCalled
    /\ response' = None
    /\ UNCHANGED <<client, stdio, pager, builder, invocation, tools, workers, wrapper>>

\* the lines a peer writes to the input stream
StdioLines ==
    {Wire("blank", Null, 0), Wire("blank", Null, 3), Wire("garbled", Null, 8),
     Wire("too_deep", Null, 45)}
        \cup {Wire("json", p, 45) :
                p \in {Num(1),
                       Envelope(Str("2.0"), Num(1), Str("ping"), Absent),
                       Envelope(Str("2.0"), Absent, Str("ping"), Absent),
                       Envelope(Str("2.0"), Str("request-1"),
                                Str("read_resource"),
                                MkObj(<< <<"uri", Str("recruitee://offers")>> >>))}}

\* line.strip() is empty
IsBlank(line) == line.kind = "blank"

\* the remote API as a line sees it that makes no call of it
NoRemote == [kind |-> "unused", status |-> 0]

\* the stdio loop before its first line
InitialStdio(impl) ==
    [impl |-> impl, read |-> <<>>, written |-> <<>>, raised |-> None]

\* the entry of the log of lines read: the line, with the behaviour of the
\* remote API when the handling of the line called the API
Seen(line, remote, calls) ==
    [line |-> line, remote |-> IF calls = <<>> THEN NoRemote ELSE remote]

\* one iteration of the loop: the line is skipped, a response is written
\* for it, or an exception that json.loads raised leaves the loop
ReadLine(impl) ==
    /\ stdio # None
    /\ stdio.impl = impl
    /\ stdio.raised = None
    /\ Len(stdio.read) < MaxLines
    /\ \E line \in StdioLines, remote \in RemoteBehaviours :
          LET request_payload == json_loads(line)
              skipped == IsBlank(line)
              parsed == ~skipped /\ request_payload.kind # "raise"
              parse_error == /\ ~skipped /\ ~parsed
                             /\ request_payload.type = "JSONDecodeError"
              uncaught == ~skipped /\ ~parsed /\ ~parse_error
          IN /\ request' = IF parsed THEN request_payload.value ELSE None
             /\ outcome' = IF parsed
                           THEN handle_json_rpc(client, request_payload.value,
                                                remote)
                           ELSE NotCalled
             /\ response' = IF parsed
                            THEN AdapterResponse(outcome',
                                     PayloadId(request_payload.value))
                            ELSE IF parse_error THEN ParseError ELSE None
             /\ stdio' =
                  [stdio EXCEPT
                     !.read = Append(@, Seen(line, remote, outcome'.calls)),
                     !.written = IF response' # None
                                 THEN Append(@, response') ELSE @,
                     !.raised = IF uncaught
                                THEN Uncaught(request_payload.type) ELSE None]
    /\ UNCHANGED <<client, exchange, pager, builder, invocation, tools, workers, wrapper>>

\* run_stdio of main.py
run_stdio_line == ReadLine("run_stdio")

\* RecruiteeMCPServer.run
run == ReadLine("run")

\* main(): the server is built with or without a client and serves over
\* HTTP or over stdio
InitTransports ==
    /\ client \in {None, ConfiguredClient}
    /\ request = None
    /\ outcome = NotCalled
    /\ response = None
    /\ exchange = None
    /\ stdio \in {None, InitialStdio("run_stdio"), InitialStdio("run")}
    /\ pager = None
    /\ builder = None
    /\ invocation = None
    /\ tools = _tools
    /\ workers = None
    /\ wrapper = None

NextTransports ==
    \/ do_POST
    \/ do_GET
    \/ finish_request
    \/ run_stdio_line
    \/ run

SpecTransports == InitTransports /\ [][NextTransports]_vars

(***************************************************************************)
(* The pagination iterators of the client (client.py):                     *)
(* iter_search_candidates_advanced and iter_candidates, two generators     *)
(* with the same loop.  A page is kept by the number of its items.         *)
(***************************************************************************)
\* bounds: the page sizes asked for, the items a page of the remote API
\* holds, the maximum record counts, and the calls made in a run
MaxPageSize == 2
MaxPage == 3
MaxRecords == 4
MaxCalls == 3

\* the default page_size of iter_search_candidates_advanced and of
\* iter_candidates
DefaultSearchPageSize == 500
DefaultListPageSize == 200

\* the answers of the remote API to one page request: a dict with a list of
\* n items under `key`, a dict without any list, or an error
ListPage(key, n) == [kind |-> "list", key |-> key, n |-> n]
NoListPage == [kind |-> "none", key |-> "", n |-> 0]
ErrorPage == [kind |-> "error", key |-> "", n |-> 0]

\* the keys under which the loop looks for the list
ItemKeys == {"candidates", "items", "results", "data", "hits"}

\* len(items) for the items the loop takes out of a response; 0 when it
\* finds no list (`if not items: return`)
ItemCount(resp) ==
    IF resp.kind = "list" /\ resp.key \in ItemKeys THEN resp.n ELSE 0

\* the client method behind each iterator
PageOperation ==
    [iter_search_candidates_advanced |-> "search_candidates_advanced",
     iter_candidates |-> "list_candidates"]

\* the generator object right after the call of the iterator method: no
\* line of its body has run.  max_records is Null (None) or Num(n); source
\* is None for the remote API, or the script of a mock: the sizes of the
\* pages it returns, call after call.
NewPager(method, page_size, start_offset, max_records, source) ==
    [method |-> method, page_size |-> page_size,
     start_offset |-> start_offset, max_records |-> max_records,
     source |-> source, pc |-> "start", offset |-> start_offset,
     yielded |-> 0, limit |-> 0, got |-> 0, pos |-> 0, out |-> 0,
     calls |-> <<>>]

Min(a, b) == IF a <= b THEN a ELSE b

\* mutant: the cap is not respected per page
PageLimit_without_cap(pg) == pg.page_size

\* the limit of the next page request
PageLimit(pg) ==
    IF pg.max_records # Null
    THEN Min(pg.page_size, pg.max_records.v - pg.yielded)
    ELSE pg.page_size

\* mutant: a short page does not end the iteration
ShortPage_ignored(got, limit) == FALSE

\* `if got < limit: return`
ShortPage(got, limit) == got < limit

\* mutant: the offset advances by the number of items asked for
NextOffset_by_limit(offset, got, limit) == offset + limit

\* `offset += got`
NextOffset(offset, got, limit) == offset + got

\* mutant: the count of the items handed out stays where it is
Counted_stuck(yielded) == yielded

\* `yielded += 1`
Counted(yielded) == yielded + 1

\* mutant: the cap is not looked at between the items of a page
CapHit_never(max_records, yielded) == FALSE

\* `if max_records is not None and yielded >= max_records: return`
CapHit(max_records, yielded) ==
    max_records # Null /\ yielded >= max_records.v

\* the top of the `while True` loop, down to the first yield of the page:
\* the cap check, the page request answered by `resp`, the look for the
\* items
LoopTop(pg, resp) ==
    LET call == [op |-> PageOperation[pg.method], limit |-> PageLimit(pg),
                 offset |-> pg.offset, returned |-> ItemCount(resp)]
    IN IF pg.max_records # Null /\ pg.max_records.v - pg.yielded <= 0
       THEN [pg EXCEPT !.pc = "done"]
       ELSE IF resp.kind = "error"
       THEN [pg EXCEPT !.pc = "raised", !.limit = PageLimit(pg),
                       !.calls = Append(@, call)]
       ELSE IF ItemCount(resp) = 0
       THEN [pg EXCEPT !.pc = "done", !.limit = PageLimit(pg), !.got = 0,
                       !.pos = 0, !.calls = Append(@, call)]
       ELSE [pg EXCEPT !.pc = "yielding", !.limit = PageLimit(pg),
                       !.got = ItemCount(resp), !.pos = 1, !.out = @ + 1,
                       !.calls = Append(@, call)]

\* next(generator): the body runs from where it is suspended to its next
\* yield, or to its end; `resp` answers the page request, if one is made
Resume(pg, resp) ==
    IF pg.pc = "start" THEN LoopTop(pg, resp)
    ELSE IF CapHit(pg.max_records, Counted(pg.yielded))
    THEN [pg EXCEPT !.pc = "done", !.yielded = Counted(@)]
    ELSE IF pg.pos < pg.got
    THEN [pg EXCEPT !.yielded = Counted(@), !.pos = @ + 1, !.out = @ + 1]
    ELSE IF ShortPage(pg.got, pg.limit)
    THEN [pg EXCEPT !.pc = "done", !.yielded = Counted(@),
                    !.offset = NextOffset(pg.offset, pg.got, pg.limit)]
    ELSE LoopTop([pg EXCEPT !.yielded = Counted(@),
                            !.offset = NextOffset(pg.offset, pg.got, pg.limit)],
                 resp)

\* the next step of the generator can make a page request
MayRequest(pg) == pg.pc = "start" \/ pg.pos = pg.got

\* the answers of the remote API
RemotePages ==
    {NoListPage, ErrorPage}
        \cup {ListPage(k, n) : k \in {"candidates", "hits"}, n \in 0..MaxPage}

\* the answer of a mock to its k-th page request: the k-th page of its
\* script, an empty page after the script
MockPage(pages, k) ==
    ListPage("candidates", IF k <= Len(pages) THEN pages[k] ELSE 0)

\* the answers a page request of the generator can get
Answers(pg) ==
    IF pg.source = None THEN RemotePages
    ELSE {MockPage(pg.source.pages, Len(pg.calls) + 1)}

\* the page requests a run of the model may make against the remote API:
\* MaxCalls without a maximum record count, and MaxCalls more than the
\* count with one
CallsCap(pg) ==
    IF pg.max_records = Null THEN MaxCalls
    ELSE MaxCalls + (IF pg.max_records.v > 0 THEN pg.max_records.v ELSE 0)

\* the consumer takes the next item
Next_item(method) ==
    /\ pager # None
    /\ pager.method = method
    /\ pager.pc \in {"start", "yielding"}
    /\ MayRequest(pager) /\ pager.source = None =>
          Len(pager.calls) < CallsCap(pager)
    /\ \E resp \in Answers(pager) : pager' = Resume(pager, resp)
    /\ UNCHANGED <<client, request, outcome, response, exchange, stdio, builder, invocation, tools, workers, wrapper>>

iter_search_candidates_advanced == Next_item("iter_search_candidates_advanced")

iter_candidates == Next_item("iter_candidates")

\* the mocks: pages of 500, 500 and 137 items; one page of 60 items and an
\* empty one
Mock(pages) == [pages |-> pages]
MockOfThreePages == Mock(<<500, 500, 137>>)
MockOfTwoPages == Mock(<<60, 0>>)

\* the iterators a caller makes
Pagers ==
    {NewPager(m, ps, so, mr, None) :
        m \in DOMAIN PageOperation, ps \in 1..MaxPageSize, so \in {0, 7},
        mr \in {Null} \cup {Num(n) : n \in -1..MaxRecords}}
    \cup {NewPager(m, 500, 0, Num(1200), MockOfThreePages) :
            m \in DOMAIN PageOperation}
    \cup {NewPager(m, ps, 0, Null, MockOfTwoPages) :
            m \in DOMAIN PageOperation,
            ps \in {60, DefaultListPageSize, DefaultSearchPageSize}}

InitPaging ==
    /\ client = ConfiguredClient
    /\ request = None
    /\ outcome = NotCalled
    /\ response = None
    /\ exchange = None
    /\ stdio = None
    /\ pager \in Pagers
    /\ builder = None
    /\ invocation = None
    /\ tools = _tools
    /\ workers = None
    /\ wrapper = None

NextPaging ==
    \/ iter_search_candidates_advanced
    \/ iter_candidates

SpecPaging == InitPaging /\ [][NextPaging]_vars

\* the consumer is a for loop: it goes on asking for the next item until
\* the generator ends
SpecPagingFair == SpecPaging /\ WF_vars(NextPaging)

(***************************************************************************)
(* The filter builder (client.py, SearchFilters).  A filter is a dict, an *)
(* object with an identity: the builder's list and the lists build()       *)
(* returns hold references into `heap`.  A list is kept by value: two      *)
(* lists are two objects even when they hold the same references.          *)
(***************************************************************************)
\* calls made on one builder, raising ones included
MaxBuilderCalls == 3
\* lists built from one builder
MaxBuilt == 2

f_text(query) == Ok(Obj([field |-> Str("all"), query |-> Str(query)]), <<>>)

f_has_cv(value) == Ok(Obj([field |-> Str("has_cv"), eq |-> Bool(value)]), <<>>)

f_in_offers(offer_ids) ==
    Ok(Obj([field |-> Str("offers"),
            any |-> Arr([i \in DOMAIN offer_ids |-> Num(offer_ids[i])])]), <<>>)

\* {"field": field, match: list(values)} after the check of match
MatchFilter(field, values, match) ==
    IF match \notin {"any", "all"}
    THEN Raise("ValueError", <<"match must be 'any' or 'all'">>, 0, <<>>)
    ELSE LET items == Arr([i \in DOMAIN values |-> Str(values[i])])
         IN Ok(IF match = "any"
               THEN Obj([field |-> Str(field), any |-> items])
               ELSE Obj([field |-> Str(field), all |-> items]), <<>>)

f_with_tags(tags, match) == MatchFilter("tags", tags, match)

f_source(sources, match) == MatchFilter("source", sources, match)

f_location(countries_or_cities, match) ==
    MatchFilter("location", countries_or_cities, match)

\* SearchFilters(): items is a new empty list; nothing built, nothing called
NewBuilder ==
    [heap |-> <<>>, items |-> <<>>, calls |-> <<>>, built |-> <<>>,
     mutated |-> {}, raised |-> None]

\* mutant: the filter is put in front
Appended_in_front(items, f) == <<f>> \o items

\* self.items.append(f)
Appended(items, f) == Append(items, f)

\* SearchFilters.add(f) for a filter dict `made` that `method` hands over:
\* the dict becomes an object of the heap and the list gets its reference
add_filter(b, method, made) ==
    LET ref == Len(b.heap) + 1
    IN [b EXCEPT !.heap = Append(@, made),
                 !.items = Appended(@, ref),
                 !.calls = Append(@, [method |-> method, returned |-> ref,
                                      made |-> made]),
                 !.raised = None]

\* return self.add(f_xxx(...)): the constructor runs first, and when it
\* raises nothing is added
Convenience(b, method, constructed) ==
    IF constructed.kind = "raise"
    THEN [b EXCEPT !.calls = Append(@, [method |-> method, returned |-> 0,
                                        made |-> Null]),
                   !.raised = Uncaught(constructed.type)]
    ELSE add_filter(b, method, constructed.value)

\* list(self.items): a new list of the same references
list_copy(items) == items

\* the filter objects a list of references holds
Deref(b, refs) == [k \in DOMAIN refs |-> b.heap[refs[k]]]

MatchValues == {"any", "all", "none"}

MayCall == builder # None /\ Len(builder.calls) < MaxBuilderCalls

SearchFilters_add ==
    /\ MayCall
    /\ builder' = add_filter(builder, "add", f_text("b").value)
    /\ UNCHANGED <<client, request, outcome, response, exchange, stdio, pager,
                   invocation, tools, workers, wrapper>>

SearchFilters_text ==
    /\ MayCall
    /\ builder' = Convenience(builder, "text", f_text("a"))
    /\ UNCHANGED <<client, request, outcome, response, exchange, stdio, pager,
                   invocation, tools, workers, wrapper>>

SearchFilters_has_cv ==
    /\ MayCall
    /\ builder' = Convenience(builder, "has_cv", f_has_cv(TRUE))
    /\ UNCHANGED <<client, request, outcome, response, exchange, stdio, pager,
                   invocation, tools, workers, wrapper>>

SearchFilters_in_offers ==
    /\ MayCall
    /\ builder' = Convenience(builder, "in_offers", f_in_offers(<<1>>))
    /\ UNCHANGED <<client, request, outcome, response, exchange, stdio, pager,
                   invocation, tools, workers, wrapper>>

SearchFilters_with_tags ==
    /\ MayCall
    /\ \E match \in MatchValues :
          builder' = Convenience(builder, "with_tags", f_with_tags(<<"x">>, match))
    /\ UNCHANGED <<client, request, outcome, response, exchange, stdio, pager,
                   invocation, tools, workers, wrapper>>

SearchFilters_source ==
    /\ MayCall
    /\ builder' = Convenience(builder, "source", f_source(<<"x">>, "all"))
    /\ UNCHANGED <<client, request, outcome, response, exchange, stdio, pager,
                   invocation, tools, workers, wrapper>>

SearchFilters_location ==
    /\ MayCall
    /\ builder' = Convenience(builder, "location", f_location(<<"x">>, "none"))
    /\ UNCHANGED <<client, request, outcome, response, exchange, stdio, pager,
                   invocation, tools, workers, wrapper>>

\* SearchFilters.build(): the caller gets a list; the record keeps, next to
\* the list as it is now (refs), what it was when build() returned
SearchFilters_build ==
    /\ builder # None
    /\ Len(builder.built) < MaxBuilt
    /\ LET refs == list_copy(builder.items)
       IN builder' = [builder EXCEPT
              !.built = Append(@, [refs |-> refs, changed |-> FALSE,
                                   at |-> Len(builder.calls),
                                   built_refs |-> refs,
                                   built_values |-> Deref(builder, refs)])]
    /\ UNCHANGED <<client, request, outcome, response, exchange, stdio, pager,
                   invocation, tools, workers, wrapper>>

\* the caller changes a list it got from build(), once: del s[-1]
ChangeList ==
    /\ builder # None
    /\ \E i \in DOMAIN builder.built :
          /\ Len(builder.built[i].refs) > 0
          /\ ~builder.built[i].changed
          /\ builder' = [builder EXCEPT
                 !.built[i].refs = SubSeq(@, 1, Len(@) - 1),
                 !.built[i].changed = TRUE]
    /\ UNCHANGED <<client, request, outcome, response, exchange, stdio, pager,
                   invocation, tools, workers, wrapper>>

\* the caller changes a filter dict through a list it got from build(),
\* once: s[k]["field"] = "edited"
ChangeFilter ==
    /\ builder # None
    /\ builder.mutated = {}
    /\ \E i \in DOMAIN builder.built :
          \E k \in DOMAIN builder.built[i].refs :
             LET ref == builder.built[i].refs[k]
             IN /\ ref \notin builder.mutated
                /\ builder' = [builder EXCEPT
                       !.heap[ref] = Obj([@.v EXCEPT !.field = Str("edited")]),
                       !.mutated = @ \cup {ref}]
    /\ UNCHANGED <<client, request, outcome, response, exchange, stdio, pager,
                   invocation, tools, workers, wrapper>>

InitFilters ==
    /\ client = None
    /\ request = None
    /\ outcome = NotCalled
    /\ response = None
    /\ exchange = None
    /\ stdio = None
    /\ pager = None
    /\ builder = NewBuilder
    /\ invocation = None
    /\ tools = _tools
    /\ workers = None
    /\ wrapper = None

NextFilters ==
    \/ SearchFilters_add
    \/ SearchFilters_text
    \/ SearchFilters_has_cv
    \/ SearchFilters_in_offers
    \/ SearchFilters_with_tags
    \/ SearchFilters_source
    \/ SearchFilters_location
    \/ SearchFilters_build
    \/ ChangeList
    \/ ChangeFilter

SpecFilters == InitFilters /\ [][NextFilters]_vars

(***************************************************************************)
(* The client called by library code (client.py): one call of a public    *)
(* method of a configured RecruiteeClient at a time, the remote API doing  *)
(* any of the things it can do.                                            *)
(***************************************************************************)
\* a well-formed answer of the offers endpoint
OffersPayload ==
    Obj([meta |-> Obj([total_count |-> Num(3)]),
         offers |-> Arr(<<Obj([id |-> Num(1), status |-> Str("published")]),
                          Obj([id |-> Num(2), status |-> Str("archived")]),
                          Obj([id |-> Num(3), status |-> Str("published")])>>)])

ClientRemotes ==
    RemoteBehaviours
        \cup {[kind |-> "body", status |-> 200, payload |-> OffersPayload]}

\* a call of `method` with `args` that met `remote` and ended as `result`
Invocation(method, args, remote, result) ==
    [method |-> method, args |-> args, remote |-> remote, result |-> result]

RecruiteeClient_list_offers ==
    /\ invocation = None
    /\ \E state \in {Null, Str("published")}, limit \in {Null, Num(5)},
          include_description \in BOOLEAN, status \in {Null, Str("published")},
          view_mode \in {Null, Str("brief")}, offset \in {Null, Num(0)},
          remote \in ClientRemotes :
          invocation' = Invocation("list_offers",
              [state |-> state, limit |-> limit,
               include_description |-> include_description,
               status |-> status, view_mode |-> view_mode, offset |-> offset],
              remote,
              list_offers(client, state, limit, include_description, status,
                          view_mode, offset, remote))
    /\ UNCHANGED <<client, request, outcome, response, exchange, stdio, pager,
                   builder, tools, workers, wrapper>>

RecruiteeClient_get_offer ==
    /\ invocation = None
    /\ \E offer_id \in EntityIds, remote \in ClientRemotes :
          invocation' = Invocation("get_offer", [offer_id |-> offer_id], remote,
                                   get_offer(client, offer_id, remote))
    /\ UNCHANGED <<client, request, outcome, response, exchange, stdio, pager,
                   builder, tools, workers, wrapper>>

RecruiteeClient_list_pipelines ==
    /\ invocation = None
    /\ \E remote \in ClientRemotes :
          invocation' = Invocation("list_pipelines", <<>>, remote,
                                   list_pipelines(client, remote))
    /\ UNCHANGED <<client, request, outcome, response, exchange, stdio, pager,
                   builder, tools, workers, wrapper>>

RecruiteeClient_search_candidates ==
    /\ invocation = None
    /\ \E query \in {Str("dev")}, page \in {Null, Num(2)},
          limit \in {Null, Num(5)}, remote \in ClientRemotes :
          invocation' = Invocation("search_candidates",
              [query |-> query, page |-> page, limit |-> limit], remote,
              search_candidates(client, query, page, limit, remote))
    /\ UNCHANGED <<client, request, outcome, response, exchange, stdio, pager,
                   builder, tools, workers, wrapper>>

RecruiteeClient_get_candidate ==
    /\ invocation = None
    /\ \E candidate_id \in EntityIds, remote \in ClientRemotes :
          invocation' = Invocation("get_candidate",
              [candidate_id |-> candidate_id], remote,
              get_candidate(client, candidate_id, remote))
    /\ UNCHANGED <<client, request, outcome, response, exchange, stdio, pager,
                   builder, tools, workers, wrapper>>

RecruiteeClient_create_candidate ==
    /\ invocation = None
    /\ \E phone \in {Null, Str("555")}, offer_id \in {Null, Num(1)},
          remote \in ClientRemotes :
          LET kw == [first_name |-> Str("Jane"), last_name |-> Str("Doe"),
                     email |-> Str("jane@example.com"), phone |-> phone,
                     source |-> Null, offer_id |-> offer_id,
                     pipeline_id |-> Null, notes |-> Null,
                     custom_fields |-> Null]
          IN invocation' = Invocation("create_candidate", kw, remote,
                                      create_candidate(client, kw, remote))
    /\ UNCHANGED <<client, request, outcome, response, exchange, stdio, pager,
                   builder, tools, workers, wrapper>>

\* the caller has the value or the exception; the client keeps nothing of
\* the call
ReturnToCaller ==
    /\ invocation # None
    /\ invocation' = None
    /\ UNCHANGED <<client, request, outcome, response, exchange, stdio, pager,
                   builder, tools, workers, wrapper>>

InitClient ==
    /\ client = ConfiguredClient
    /\ request = None
    /\ outcome = NotCalled
    /\ response = None
    /\ exchange = None
    /\ stdio = None
    /\ pager = None
    /\ builder = None
    /\ invocation = None
    /\ tools = _tools
    /\ workers = None
    /\ wrapper = None

NextClient ==
    \/ RecruiteeClient_list_offers
    \/ RecruiteeClient_get_offer
    \/ RecruiteeClient_list_pipelines
    \/ RecruiteeClient_search_candidates
    \/ RecruiteeClient_get_candidate
    \/ RecruiteeClient_create_candidate
    \/ ReturnToCaller

SpecClient == InitClient /\ [][NextClient]_vars

(***************************************************************************)
(* The threading HTTP server (http_server.py, ThreadingHTTPServer): every  *)
(* request is served by a thread of its own, and all threads share the one *)
(* RecruiteeMCPServer, its tool table and its client.  A thread takes a    *)
(* request, dispatches it and writes the response; the steps of different  *)
(* threads interleave in any order.                                        *)
(***************************************************************************)
\* threads serving a request at the same time
MaxWorkers == 2

Workers == 1..MaxWorkers

IdleWorker == [pc |-> "idle", payload |-> None, written |-> None]

\* the requests the threads are given
WorkerPayloads ==
    {Envelope(Str("2.0"), Num(1), Str("list_tools"), Absent),
     Envelope(Str("2.0"), Num(1), Str("ping"), Absent),
     Envelope(Str("2.0"), Num(1), Str("read_resource"),
              MkObj(<< <<"uri", Str("recruitee://offers")>> >>)),
     Envelope(Str("2.0"), Num(1), Str("call_tool"),
              MkObj(<< <<"name", Str("search_offers")>>,
                       <<"arguments", Obj(<<>>)>> >>)),
     Envelope(Str("2.0"), Num(1), Str("call_tool"),
              MkObj(<< <<"name", Str("get_offer")>>,
                       <<"arguments", MkObj(<< <<"offer_id", Num(1)>> >>)>> >>)),
     Envelope(Str("2.0"), Num(1), Str("call_tool"),
              MkObj(<< <<"name", Str("no_such_tool")>> >>)),
     Envelope(Null, Num(1), Str("list_tools"), Absent)}

WorkerRemotes ==
    {[kind |-> "body", status |-> 200], [kind |-> "http_error", status |-> 500],
     [kind |-> "read_timeout", status |-> 0]}

\* mutant: call_tool drops the tool it looked up from the table
ToolTableAfter_pop(table, payload) ==
    IF IsMapping(payload) /\ EqStr(Get(payload, "method"), "call_tool")
    THEN Tail(table) ELSE table

\* self._tools after a request was dispatched: the handlers read the table
\* (self._tools.values(), self._tools.get(name)) and never assign to it
ToolTableAfter(table, payload) == table

\* the fields of self._client after a request was dispatched: the client's
\* methods read company_id, api_token, base_url and timeout and assign none
ClientAfter(c, payload) == c

\* ThreadingMixIn.process_request: a new thread gets the request
process_request(w) ==
    /\ workers # None
    /\ workers[w].pc = "idle"
    /\ \E payload \in WorkerPayloads :
          workers' = [workers EXCEPT ![w] = [pc |-> "dispatching",
                                             payload |-> payload,
                                             written |-> None]]
    /\ UNCHANGED <<client, request, outcome, response, exchange, stdio, pager,
                   builder, invocation, tools, wrapper>>

\* the thread runs _dispatch_request(payload) on the shared server
worker_dispatch(w) ==
    /\ workers # None
    /\ workers[w].pc = "dispatching"
    /\ \E remote \in WorkerRemotes :
          workers' = [workers EXCEPT ![w] =
              [pc |-> "writing", payload |-> @.payload,
               written |-> AdapterResponse(
                   handle_json_rpc(client, workers[w].payload, remote),
                   Get(workers[w].payload, "id"))]]
    /\ tools' = ToolTableAfter(tools, workers[w].payload)
    /\ client' = IF client = None THEN None
                 ELSE ClientAfter(client, workers[w].payload)
    /\ UNCHANGED <<request, outcome, response, exchange, stdio, pager,
                   builder, invocation, wrapper>>

\* the thread has written the response and ends
worker_done(w) ==
    /\ workers # None
    /\ workers[w].pc = "writing"
    /\ workers' = [workers EXCEPT ![w] = IdleWorker]
    /\ UNCHANGED <<client, request, outcome, response, exchange, stdio, pager,
                   builder, invocation, tools, wrapper>>

InitWorkers ==
    /\ client \in {None, ConfiguredClient}
    /\ request = None
    /\ outcome = NotCalled
    /\ response = None
    /\ exchange = None
    /\ stdio = None
    /\ pager = None
    /\ builder = None
    /\ invocation = None
    /\ tools = _tools
    /\ workers = [w \in Workers |-> IdleWorker]
    /\ wrapper = None

NextWorkers ==
    \/ \E w \in Workers : process_request(w)
    \/ \E w \in Workers : worker_dispatch(w)
    \/ \E w \in Workers : worker_done(w)

SpecWorkers == InitWorkers /\ [][NextWorkers]_vars

(***************************************************************************)
(* The Flask wrapper (wrapper.py).  Flask serves every request in a thread *)
(* of its own; all threads run call_recruitee on the one module global     *)
(* request_id, without a lock.  The steps of a thread are the reads and    *)
(* the write of the global that the function body makes: the value read    *)
(* for the payload, the value read by `request_id += 1`, and its store.    *)
(* Python does not make the three one step, so the steps of different      *)
(* threads interleave.                                                      *)
(***************************************************************************)
\* threads inside call_recruitee at the same time
MaxThreads == 2
\* calls of call_recruitee in one run
MaxWrapperCalls == 3

Threads == 1..MaxThreads

IdleThread == [pc |-> "idle", payload_id |-> 0, loaded |-> 0]

\* the module after import: request_id = 1, nothing sent
LoadedWrapper ==
    [request_id |-> 1, threads |-> [t \in Threads |-> IdleThread],
     started |-> 0, sent |-> <<>>]

\* a route function calls call_recruitee(method, params)
call_recruitee(t) ==
    /\ wrapper # None
    /\ wrapper.threads[t].pc = "idle"
    /\ wrapper.started < MaxWrapperCalls
    /\ wrapper' = [wrapper EXCEPT !.threads[t].pc = "payload",
                                  !.started = @ + 1]
    /\ UNCHANGED <<client, request, outcome, response, exchange, stdio, pager,
                   builder, invocation, tools, workers>>

\* payload = {..., "id": request_id}
build_payload(t) ==
    /\ wrapper # None
    /\ wrapper.threads[t].pc = "payload"
    /\ wrapper' = [wrapper EXCEPT !.threads[t].payload_id = wrapper.request_id,
                                  !.threads[t].pc = "load"]
    /\ UNCHANGED <<client, request, outcome, response, exchange, stdio, pager,
                   builder, invocation, tools, workers>>

\* request_id += 1, the read of the global
load_request_id(t) ==
    /\ wrapper # None
    /\ wrapper.threads[t].pc = "load"
    /\ wrapper' = [wrapper EXCEPT !.threads[t].loaded = wrapper.request_id,
                                  !.threads[t].pc = "store"]
    /\ UNCHANGED <<client, request, outcome, response, exchange, stdio, pager,
                   builder, invocation, tools, workers>>

\* request_id += 1, the store of the sum
store_request_id(t) ==
    /\ wrapper # None
    /\ wrapper.threads[t].pc = "store"
    /\ wrapper' = [wrapper EXCEPT !.request_id = wrapper.threads[t].loaded + 1,
                                  !.threads[t].pc = "post"]
    /\ UNCHANGED <<client, request, outcome, response, exchange, stdio, pager,
                   builder, invocation, tools, workers>>

\* requests.post(RECRUITEE_API, json=payload, headers=headers) and the
\* return (or the exception) of call_recruitee
post(t) ==
    /\ wrapper # None
    /\ wrapper.threads[t].pc = "post"
    /\ wrapper' = [wrapper EXCEPT
           !.sent = Append(@, [thread |-> t,
                               id |-> wrapper.threads[t].payload_id]),
           !.threads[t] = IdleThread]
    /\ UNCHANGED <<client, request, outcome, response, exchange, stdio, pager,
                   builder, invocation, tools, workers>>

InitWrapper ==
    /\ client = None
    /\ request = None
    /\ outcome = NotCalled
    /\ response = None
    /\ exchange = None
    /\ stdio = None
    /\ pager = None
    /\ builder = None
    /\ invocation = None
    /\ tools = _tools
    /\ workers = None
    /\ wrapper = LoadedWrapper

NextWrapper ==
    \/ \E t \in Threads : call_recruitee(t)
    \/ \E t \in Threads : build_payload(t)
    \/ \E t \in Threads : load_request_id(t)
    \/ \E t \in Threads : store_request_id(t)
    \/ \E t \in Threads : post(t)

SpecWrapper == InitWrapper /\ [][NextWrapper]_vars

(***************************************************************************)
(* Properties.  The predicates below describe a request by its JSON shape  *)
(* alone; they do not use the operators of the dispatcher.                 *)
(***************************************************************************)
\* a payload has been served and its response is in `response`
Served == request # None

\* handle_json_rpc was called for the served payload
Called == Served /\ outcome.kind # "not_called"

IsObject(x) == x.t = "obj"
Field(x, k) == IF k \in DOMAIN x.v THEN x.v[k] ELSE Absent
NonEmptyString(x) == x.t = "str" /\ x.v # ""
JsonrpcOk(x) == Field(x, "jsonrpc") = Str("2.0")
IdOk(x) == Field(x, "id") \notin {Absent, Null}
MethodOk(x) == NonEmptyString(Field(x, "method"))
\* a JSON null in params is read like an absent params
ParamsAbsent(x) == Field(x, "params") \in {Absent, Null}
ParamsOk(x) == ParamsAbsent(x) \/ IsObject(Field(x, "params"))

\* the envelope passes the five checks
ValidEnvelope(x) ==
    IsObject(x) /\ JsonrpcOk(x) /\ IdOk(x) /\ MethodOk(x) /\ ParamsOk(x)

\* the number of the first check the envelope fails, 0 when it passes all
FirstFailingCheck(x) ==
    IF ~IsObject(x) THEN 1
    ELSE IF ~JsonrpcOk(x) THEN 2
    ELSE IF ~IdOk(x) THEN 3
    ELSE IF ~MethodOk(x) THEN 4
    ELSE IF ~ParamsOk(x) THEN 5
    ELSE 0

ExactlyOneOfResultAndError(r) ==
    ("result" \in DOMAIN r) # ("error" \in DOMAIN r)

IsErrorResponse(r) == "error" \in DOMAIN r /\ "result" \notin DOMAIN r

\* the response is an error response with this code
ErrorCode(r, code) == IsErrorResponse(r) /\ r.error.code = code

WellFormedResponse(r) ==
    /\ r # None
    /\ r.jsonrpc = "2.0"
    /\ "id" \in DOMAIN r
    /\ ExactlyOneOfResultAndError(r)
    /\ IsErrorResponse(r) =>
          /\ {"code", "message"} \subseteq DOMAIN r.error
          /\ r.error.code \in Int
          /\ Len(r.error.message) > 0

\* C1: for every request that passes envelope validation, whatever the
\* method and whether the handler succeeds or raises, the response has the
\* id of the request and exactly one of result and error.
C1_ResponseKeepsIdAndHasOneOfResultError ==
    (Served /\ ValidEnvelope(request)) =>
        /\ outcome.kind = "return"
        /\ response = outcome.response
        /\ response.id = Field(request, "id")
        /\ ExactlyOneOfResultAndError(response)

\* C1 witness: a valid envelope whose handler raised, answered with an error
\* that carries the request's id
C1_Witness ==
    /\ Served /\ ValidEnvelope(request)
    /\ outcome.caught # None
    /\ IsErrorResponse(response)
    /\ response.id = Str("request-1")

CheckData(n, x) ==
    CASE n = 1 -> Str("Request must be an object")
      [] n = 2 -> Str("jsonrpc must be '2.0'")
      [] n = 3 -> IF Field(x, "id") = Absent THEN Str("Missing id")
                  ELSE Str("id must not be null")
      [] n = 4 -> Str("Method must be a non-empty string")
      [] n = 5 -> Str("Params must be an object")

\* C3: the envelope checks are applied in the order object, jsonrpc, id,
\* method, params and the error is that of the first failing check: code
\* -32600 for checks 1 to 4 even when params is malformed too, -32602 only
\* when checks 1 to 4 pass.
C3_FirstFailingCheckWins ==
    Served =>
        LET n == FirstFailingCheck(request)
        IN /\ n \in 1..4 =>
                /\ ErrorCode(response, -32600)
                /\ response.error.data = CheckData(n, request)
           /\ n = 5 =>
                /\ ErrorCode(response, -32602)
                /\ response.error.data = CheckData(5, request)
           /\ n = 0 => ~ErrorCode(response, -32602) /\ ~ErrorCode(response, -32600)
           /\ Called => (outcome.kind = "raise" <=> n # 0)

\* C3 witness: wrong jsonrpc and malformed params together, answered -32600
C3_Witness ==
    /\ Called /\ IsObject(request)
    /\ ~JsonrpcOk(request) /\ IdOk(request) /\ MethodOk(request)
    /\ ~ParamsOk(request)
    /\ ErrorCode(response, -32600)

\* C4: an envelope without id and one with a null id are rejected with
\* -32600 and reach no handler; every other id value is accepted.
C4_MissingOrNullIdRejected ==
    (Served /\ IsObject(request)) =>
        /\ ~IdOk(request) =>
              /\ ErrorCode(response, -32600)
              /\ outcome.kind = "raise"
              /\ outcome.invoked = <<>>
              /\ outcome.calls = <<>>
        /\ (IdOk(request) /\ JsonrpcOk(request) /\ MethodOk(request)
                /\ ParamsOk(request)) =>
              /\ outcome.kind = "return"
              /\ response.id = Field(request, "id")

\* C4 witness: a null id on an otherwise valid envelope, rejected
C4_Witness ==
    /\ Served /\ IsObject(request)
    /\ Field(request, "id") = Null
    /\ JsonrpcOk(request) /\ MethodOk(request) /\ ParamsOk(request)
    /\ ErrorCode(response, -32600)

\* C5: with jsonrpc, id and method in order, params that is a string, a
\* number, a boolean or an array is rejected with -32602 "Invalid params"
\* and no handler runs; with params absent the handler gets an empty object.
C5_ParamsObjectOrRejected ==
    (Served /\ IsObject(request) /\ JsonrpcOk(request) /\ IdOk(request)
            /\ MethodOk(request)) =>
        /\ Field(request, "params").t \in {"str", "num", "bool", "arr"} =>
              /\ ErrorCode(response, -32602)
              /\ response.error.message = <<"Invalid params">>
              /\ outcome.invoked = <<>>
              /\ outcome.calls = <<>>
        /\ Field(request, "params") = Absent =>
              /\ outcome.kind = "return"
              /\ \A i \in DOMAIN outcome.invoked :
                    outcome.invoked[i].params = Obj(<<>>)
              /\ Field(request, "method").v \in BuiltinMethods =>
                    Len(outcome.invoked) = 1

\* C5 witness: array params on an otherwise valid envelope, rejected
C5_Witness ==
    /\ Served /\ IsObject(request)
    /\ JsonrpcOk(request) /\ IdOk(request) /\ MethodOk(request)
    /\ Field(request, "params").t = "arr"
    /\ ErrorCode(response, -32602)

\* C6: a valid envelope whose method is none of the six built-in ones gets
\* an error -32601 whose message contains the method name, with the
\* request's id, and no remote call is made.
C6_UnknownMethod ==
    (Served /\ ValidEnvelope(request)
            /\ Field(request, "method").v \notin
                   {"initialize", "ping", "list_resources", "read_resource",
                    "list_tools", "call_tool"}) =>
        /\ ErrorCode(response, -32601)
        /\ Contains(response.error.message, Field(request, "method").v)
        /\ response.id = Field(request, "id")
        /\ outcome.calls = <<>>
        /\ outcome.invoked = <<>>

\* C6 witness: an unknown method with params that name a tool, on a server
\* that has a client
C6_Witness ==
    /\ Served /\ ValidEnvelope(request) /\ client # None
    /\ Field(request, "method") = Str("does_not_exist")
    /\ Field(request, "params") \notin {Absent, Null}
    /\ "name" \in DOMAIN Field(request, "params").v
    /\ ErrorCode(response, -32601)

\* the params of the request, an absent or null params read as {}
ParamsOf(x) ==
    IF ParamsAbsent(x) THEN Obj(<<>>) ELSE Field(x, "params")

IsCallTool(x) == ValidEnvelope(x) /\ Field(x, "method") = Str("call_tool")

RegisteredToolNames ==
    {"search_offers", "get_offer", "search_candidates", "get_candidate",
     "create_candidate"}

\* C7 as claimed: a valid call_tool request whose params.name is not the
\* name of a registered tool (absent, null, not a string, or an unknown
\* string) is answered with the domain code -32001.
C7_UnknownToolIsDomainError ==
    (Served /\ IsCallTool(request)
            /\ Field(ParamsOf(request), "name") \notin
                   {Str(n) : n \in RegisteredToolNames}) =>
        ErrorCode(response, -32001)

RemoteLayerErrors ==
    {"RecruiteeError", "RecruiteeAPIError", "RecruiteeConnectionError"}

\* C8: a remote-layer error raised by a handler is reported with -32002 for
\* a connection failure, with the HTTP status for an API error when it is
\* positive and the fallback -32000 otherwise, with -32001 for any other
\* remote-layer error; the specific kinds never get -32001.
C8_RemoteErrorCodes ==
    (Served /\ outcome.caught # None
            /\ outcome.caught.type \in RemoteLayerErrors) =>
        LET e == outcome.caught
        IN /\ e.type = "RecruiteeConnectionError" => ErrorCode(response, -32002)
           /\ e.type = "RecruiteeAPIError" =>
                 IF e.status_code > 0
                 THEN ErrorCode(response, e.status_code)
                 ELSE ErrorCode(response, -32000)
           /\ e.type = "RecruiteeError" => ErrorCode(response, -32001)
           /\ e.type # "RecruiteeError" => ~ErrorCode(response, -32001)

\* C8 witness: the remote API answered 404 and the response carries 404
C8_Witness ==
    /\ Served /\ outcome.caught # None
    /\ outcome.caught.type = "RecruiteeAPIError"
    /\ outcome.caught.status_code = 404
    /\ Len(outcome.calls) = 1
    /\ ErrorCode(response, 404)

\* C9 as claimed: an exception that is not a remote-layer error is reported
\* with code -32603, message "Internal error" and the exception's message
\* in the data field.
C9_InternalErrorWithData ==
    (Served /\ outcome.caught # None
            /\ outcome.caught.type \notin RemoteLayerErrors) =>
        /\ ErrorCode(response, -32603)
        /\ response.error.message = <<"Internal error">>
        /\ "data" \in DOMAIN response.error
        /\ response.error.data = Str(Text(outcome.caught.msg))

\* C9 as amended: such an exception is reported with code -32603 and the
\* message "Unexpected error: " followed by the exception's message; the
\* error has no data field.
C9_UnexpectedErrorInMessage ==
    (Served /\ outcome.caught # None
            /\ outcome.caught.type \notin RemoteLayerErrors) =>
        /\ ErrorCode(response, -32603)
        /\ response.error.message = <<"Unexpected error: ">> \o outcome.caught.msg
        /\ "data" \notin DOMAIN response.error

\* C9 witness: a tool is called on a server without client
C9_Witness ==
    /\ Served /\ client = None /\ IsCallTool(request)
    /\ outcome.caught # None
    /\ outcome.caught.type = "RuntimeError"
    /\ ErrorCode(response, -32603)

CandidateFields == {"first_name", "last_name", "email"}

\* the arguments of a call_tool request: Absent, or the value under
\* params.arguments
ArgumentsOf(x) == Field(ParamsOf(x), "arguments")

\* the required fields that are absent or empty in the arguments
MissingOf(a) ==
    IF a \in {Absent, Null} THEN CandidateFields
    ELSE {f \in CandidateFields : Field(a, f) \in {Absent, Null, Str("")}}

\* C10: a create_candidate call in which some of first_name, last_name,
\* email is absent or empty gets the domain error -32001 with a message
\* that starts with "Missing required fields" and names exactly the missing
\* fields, for every subset of the three; no candidate is created.
C10_MissingFieldsAllNamed ==
    (Served /\ IsCallTool(request)
            /\ Field(ParamsOf(request), "name") = Str("create_candidate")
            /\ (ArgumentsOf(request) \in {Absent, Null}
                    \/ IsObject(ArgumentsOf(request)))
            /\ MissingOf(ArgumentsOf(request)) # {}) =>
        /\ ErrorCode(response, -32001)
        /\ response.error.message[1] = "Missing required fields: "
        /\ \A f \in CandidateFields :
              Contains(response.error.message, f)
                  <=> f \in MissingOf(ArgumentsOf(request))
        /\ outcome.calls = <<>>

\* C10 witness: first_name and email are missing, last_name is given, on a
\* server that has a client
C10_Witness ==
    /\ Served /\ IsCallTool(request) /\ client # None
    /\ Field(ParamsOf(request), "name") = Str("create_candidate")
    /\ IsObject(ArgumentsOf(request))
    /\ MissingOf(ArgumentsOf(request)) = {"first_name", "email"}
    /\ ErrorCode(response, -32001)
    /\ Len(response.error.message) = 4

\* the arguments every registered tool requires, as its schema lists them
RequiredArguments ==
    [search_offers |-> {}, get_offer |-> {"offer_id"},
     search_candidates |-> {"query"}, get_candidate |-> {"candidate_id"},
     create_candidate |-> CandidateFields]

\* the client operation behind every registered tool
ClientOperation ==
    [search_offers |-> "list_offers", get_offer |-> "get_offer",
     search_candidates |-> "search_candidates",
     get_candidate |-> "get_candidate",
     create_candidate |-> "create_candidate"]

\* the request supplies the argument: it is there with a value other than
\* null and the empty string
Supplied(a, f) ==
    IsObject(a) /\ Field(a, f) \notin {Absent, Null, Str("")}

\* a valid call_tool request that names a registered tool and supplies what
\* the tool requires (no arguments at all will do for a tool that requires
\* none)
WellFormedToolCall(x) ==
    /\ IsCallTool(x)
    /\ Field(ParamsOf(x), "name").t = "str"
    /\ Field(ParamsOf(x), "name").v \in RegisteredToolNames
    /\ ArgumentsOf(x) \in {Absent, Null} \/ IsObject(ArgumentsOf(x))
    /\ \A f \in RequiredArguments[Field(ParamsOf(x), "name").v] :
          Supplied(ArgumentsOf(x), f)

\* the one content item that wraps a value
JsonItem(data) == Obj([type |-> Str("application/json"), data |-> data])

\* C11: on a server that has a client, a call_tool request that names a
\* registered tool and supplies its required arguments makes exactly one
\* call of the client, the one of the operation behind the tool; when that
\* call returns a value, the response is a result whose content is a list
\* of exactly one item, {type: "application/json", data: the value}.
C11_CallToolWrapsClientValue ==
    (Served /\ Called /\ client # None /\ WellFormedToolCall(request)) =>
        /\ Len(outcome.calls) = 1
        /\ outcome.calls[1].op =
               ClientOperation[Field(ParamsOf(request), "name").v]
        /\ outcome.calls[1].returned # None =>
              /\ "result" \in DOMAIN response
              /\ response.result =
                     Obj([content |->
                              Arr(<<JsonItem(outcome.calls[1].returned)>>)])

\* C11 witness: get_offer with an offer_id, answered by the remote API
C11_Witness ==
    /\ Served /\ Called /\ client # None /\ WellFormedToolCall(request)
    /\ Field(ParamsOf(request), "name") = Str("get_offer")
    /\ Len(outcome.calls) = 1
    /\ outcome.calls[1].returned = RemotePayload
    /\ "result" \in DOMAIN response
    /\ Len(response.result.v.content.v) = 1

\* the valid read_resource request for a URI
IsReadResource(x, uri) ==
    /\ ValidEnvelope(x)
    /\ Field(x, "method") = Str("read_resource")
    /\ Field(ParamsOf(x), "uri") = Str(uri)

\* C12: on a server that has a client, read_resource makes exactly one call
\* of the client: list_offers for recruitee://offers, list_pipelines for
\* recruitee://pipelines; when the call returns a value, the response is a
\* result whose contents is the single item {type: "application/json",
\* data: the value}.
C12_ReadResourceCallsAndWraps ==
    \A u \in {"offers", "pipelines"} :
        (Served /\ Called /\ client # None
                /\ IsReadResource(request, "recruitee://" \o u)) =>
            /\ Len(outcome.calls) = 1
            /\ outcome.calls[1].op = "list_" \o u
            /\ outcome.calls[1].returned # None =>
                  /\ "result" \in DOMAIN response
                  /\ response.result =
                         Obj([contents |->
                                  Arr(<<JsonItem(outcome.calls[1].returned)>>)])

\* C12 witness: the pipelines are read and the remote API answers
C12_Witness ==
    /\ Served /\ Called /\ client # None
    /\ IsReadResource(request, "recruitee://pipelines")
    /\ Len(outcome.calls) = 1
    /\ outcome.calls[1].op = "list_pipelines"
    /\ outcome.calls[1].returned = RemotePayload
    /\ "result" \in DOMAIN response

\* a POST has been handled
IsPost == exchange # None /\ exchange.method = "POST"

DecimalDigits == {"0", "1", "2", "3", "4", "5", "6", "7", "8", "9"}

\* the Content-Length header is there and is a number
NumericLength(h) ==
    /\ h # Absent
    /\ h.v # <<>>
    /\ \A i \in DOMAIN h.v : h.v[i] \in DecimalDigits

\* C13: a POST whose Content-Length header is missing gets status 411, one
\* whose Content-Length is not a number gets status 400; in both cases that
\* is the only response, no body is read, nothing is handed to the
\* dispatcher and no remote call is made.
C13_BadLengthRejectedBeforeDispatch ==
    (IsPost /\ ~NumericLength(exchange.header)) =>
        /\ Len(exchange.written) = 1
        /\ exchange.written[1].status =
               IF exchange.header = Absent THEN 411 ELSE 400
        /\ exchange.raised = None
        /\ exchange.body = None
        /\ request = None
        /\ outcome = NotCalled
        /\ response = None

\* C13 witness: a POST without the header has been answered with 411
C13_Witness ==
    /\ IsPost
    /\ exchange.header = Absent
    /\ Len(exchange.written) = 1
    /\ exchange.written[1].status = 411
    /\ outcome = NotCalled

\* an HTTP response that carries one JSON-RPC response document
IsJsonRpcReply(w) ==
    /\ w.status = 200
    /\ w.content_type = "application/json"
    /\ "jsonrpc" \in DOMAIN w.body
    /\ WellFormedResponse(w.body)

\* C14 as claimed: every POST with a numeric Content-Length ends with
\* exactly one response written, of status 200 and with one JSON-RPC
\* response document as body, whatever the body bytes are; the handler
\* never ends without a response.
C14_EveryPostAnswered ==
    (IsPost /\ NumericLength(exchange.header)) =>
        /\ exchange.raised = None
        /\ Len(exchange.written) = 1
        /\ IsJsonRpcReply(exchange.written[1])

\* the response to input that is no JSON
ParseErrorDocument ==
    [jsonrpc |-> "2.0",
     error |-> [code |-> -32700, message |-> <<"Parse error">>],
     id |-> Null]

\* the text is no JSON: it is garbled, or it is no text at all
Unparseable(text) == text.kind \in {"garbled", "undecodable"}

\* C15 as claimed: on both transports input that cannot be parsed as JSON
\* gets exactly {jsonrpc: "2.0", id: null, error: {code: -32700, message:
\* "Parse error"}}, without data, and the dispatcher is not invoked.
C15_UnparseableGetsParseError ==
    /\ (IsPost /\ NumericLength(exchange.header)
               /\ Unparseable(exchange.body)) =>
          /\ Len(exchange.written) = 1
          /\ exchange.written[1].status = 200
          /\ exchange.written[1].body = ParseErrorDocument
          /\ outcome = NotCalled
    /\ (stdio # None /\ stdio.read # <<>>
               /\ Unparseable(stdio.read[Len(stdio.read)].line)) =>
          /\ stdio.written # <<>>
          /\ stdio.written[Len(stdio.written)] = ParseErrorDocument
          /\ response = ParseErrorDocument
          /\ outcome = NotCalled

\* the paths of the handshake and of the manifest
HandshakePaths ==
    {<<"/">>, <<"/mcp">>, <<"/openai-mcp">>, <<"/.well-known/mcp.json">>}

\* the payload of the handshake, as far as the claim fixes it
IsHandshakePayload(b) ==
    /\ IsObject(b)
    /\ Field(b, "status") = Str("ok")
    /\ Field(b, "name") = Str("recruitee-mcp")
    /\ Field(b, "protocol") = Str("model-context-protocol")
    /\ Field(b, "protocol_version") = Str(MCP_PROTOCOL_VERSION)
    /\ IsObject(Field(b, "capabilities"))
    /\ Field(Field(b, "capabilities"), "resources") = Arr(<<>>)
    /\ Field(Field(b, "capabilities"), "prompts") = Arr(<<>>)
    /\ Field(Field(b, "capabilities"), "tools").t = "arr"
    /\ Field(Field(b, "capabilities"), "tools").v # <<>>
    /\ IsObject(Field(b, "endpoints"))
    /\ Field(Field(b, "endpoints"), "jsonrpc") = Obj([path |-> Str("/")])
    /\ "version" \in DOMAIN b.v

\* C16 as claimed: a GET to "/", "/mcp", "/openai-mcp" or
\* "/.well-known/mcp.json" gets status 200 with the handshake payload.
C16_HandshakeAnswered ==
    (exchange # None /\ exchange.method = "GET"
                     /\ exchange.path \in HandshakePaths) =>
        /\ exchange.raised = None
        /\ Len(exchange.written) = 1
        /\ exchange.written[1].status = 200
        /\ IsHandshakePayload(exchange.written[1].body)

\* the lines read that are not blank
NonBlankLines == SelectSeq(stdio.read, LAMBDA e : e.line.kind # "blank")

\* the response a logged line gets when it is the only line of the stream
SoleResponse(e) ==
    IF e.line.kind = "json"
    THEN AdapterResponse(handle_json_rpc(client, e.line.value, e.remote),
                         PayloadId(e.line.value))
    ELSE ParseErrorDocument

\* C17 as claimed: in stdio mode, after any lines, there is exactly one
\* output line for every non-blank input line and none for a blank one, and
\* the k-th output line is the response the k-th non-blank line gets when it
\* is the only line of the stream.
C17_OneResponsePerNonBlankLine ==
    stdio # None =>
        /\ Len(stdio.written) = Len(NonBlankLines)
        /\ \A k \in 1..Len(stdio.written) :
              stdio.written[k] = SoleResponse(NonBlankLines[k])

\* the number of items the pages before the k-th held
RECURSIVE ReturnedBefore(_, _)
ReturnedBefore(calls, k) ==
    IF k <= 1 THEN 0
    ELSE ReturnedBefore(calls, k - 1) + calls[k - 1].returned

\* every page request so far has the offset the claim gives it
OffsetsFollow(pg) ==
    \A k \in DOMAIN pg.calls :
        pg.calls[k].offset = pg.start_offset + ReturnedBefore(pg.calls, k)

\* the three reasons to stop: the items handed out have reached the
\* maximum record count; the last page held fewer items than were asked
\* for; the last page held no item
CapReached(pg) == pg.max_records # Null /\ pg.out >= pg.max_records.v

LastCall(pg) == pg.calls[Len(pg.calls)]

ShortLast(pg) ==
    pg.calls # <<>> /\ LastCall(pg).returned < LastCall(pg).limit

EmptyLast(pg) == pg.calls # <<>> /\ LastCall(pg).returned = 0

\* every item of the pages fetched so far has been handed out
Delivered(pg) ==
    pg.out = ReturnedBefore(pg.calls, Len(pg.calls) + 1)

Running(pg) == pg.pc \in {"start", "yielding"}

\* C18: every page request has the offset start offset + the number of
\* items of the earlier pages; the iterator ends only when the items
\* handed out have reached the maximum record count, or the last page held
\* fewer items than asked for, or no item; and once a page is handed out
\* entirely, the next step of the iterator ends it without a request when
\* the cap is reached or the page was short, and makes the next page
\* request in every other case.
C18_OffsetsAndStops ==
    [][/\ OffsetsFollow(pager')
       /\ pager'.pc = "done" =>
             CapReached(pager') \/ ShortLast(pager') \/ EmptyLast(pager')
       /\ (Running(pager) /\ CapReached(pager)) =>
             /\ pager'.pc = "done"
             /\ pager'.calls = pager.calls
       /\ (Running(pager) /\ Delivered(pager) /\ ShortLast(pager)) =>
             /\ pager'.pc = "done"
             /\ pager'.calls = pager.calls
       /\ (Running(pager) /\ Delivered(pager) /\ ~CapReached(pager)
                          /\ ~ShortLast(pager)) =>
             /\ Len(pager'.calls) = Len(pager.calls) + 1
             /\ LastCall(pager').offset = pager.start_offset + pager.out
       /\ (Running(pager) /\ ~Delivered(pager) /\ ~CapReached(pager)) =>
             /\ pager'.pc = "yielding"
             /\ pager'.out = pager.out + 1
             /\ pager'.calls = pager.calls]_vars

\* C18 witness: an iterator from offset 7 without a cap has made a second
\* request after a full first page, and has ended on the short second page
C18_Witness ==
    /\ pager # None /\ pager.source = None
    /\ pager.start_offset = 7 /\ pager.max_records = Null
    /\ pager.pc = "done"
    /\ Len(pager.calls) = 2
    /\ pager.calls[1].returned = pager.calls[1].limit
    /\ pager.calls[2].offset = 7 + pager.calls[1].returned
    /\ pager.calls[2].returned = 1
    /\ pager.out = pager.calls[1].returned + 1

\* the run of the claim: page size 500, max_records 1200, a source that
\* returns pages of 500, 500 and 137 items
ThreePageRun ==
    /\ pager # None /\ pager.source # None
    /\ pager.source.pages = <<500, 500, 137>>
    /\ pager.page_size = 500 /\ pager.max_records = Num(1200)

\* C19 as claimed: the run yields exactly 1200 items and makes no fourth
\* page request.
C19_Yields1200 ==
    ThreePageRun =>
        /\ Len(pager.calls) <= 3
        /\ pager.pc = "done" => pager.out = 1200

\* what a page request asks for
Asked(pg) == [k \in DOMAIN pg.calls |-> <<pg.calls[k].limit, pg.calls[k].offset>>]

\* C19, amended: the run asks for 500 items at offset 0, 500 at offset 500
\* and 200 at offset 1000, makes no fourth page request, and ends after it
\* has yielded exactly 1137 items, all that the source holds.
C19_Yields1137 ==
    ThreePageRun =>
        /\ Len(pager.calls) <= 3
        /\ pager.out <= 1137
        /\ pager.pc # "raised"
        /\ pager.pc = "done" =>
              /\ pager.out = 1137
              /\ Asked(pager) = << <<500, 0>>, <<500, 500>>, <<200, 1000>> >>

\* C19 witness: the run is over
C19_Witness ==
    /\ ThreePageRun
    /\ pager.pc = "done"
    /\ pager.out = 1137
    /\ Len(pager.calls) = 3

\* the run of the claim: a source that returns a page of 60 items, then an
\* empty page; no cap
TwoPageRun ==
    /\ pager # None /\ pager.source # None
    /\ pager.source.pages = <<60, 0>>
    /\ pager.max_records = Null

\* C20 as claimed: the run yields 60 items, makes a second page request and
\* ends after the second, empty page.
C20_SecondRequestMade ==
    (TwoPageRun /\ pager.pc = "done") =>
        /\ pager.out = 60
        /\ Len(pager.calls) = 2
        /\ pager.calls[2].returned = 0

\* C20, amended: the run yields 60 items; with a page size of 60 the first
\* page is full, the iterator makes a second page request at offset 60 and
\* ends after that empty page; with a larger page size (the defaults 500 and
\* 200) the first page is short and the iterator ends without a second
\* request.
C20_SecondRequestAfterFullPage ==
    TwoPageRun =>
        /\ pager.out <= 60
        /\ pager.pc # "raised"
        /\ pager.pc = "done" =>
              /\ pager.out = 60
              /\ IF pager.page_size <= 60
                 THEN /\ Len(pager.calls) = 2
                      /\ pager.calls[2].offset = 60
                      /\ pager.calls[2].returned = 0
                 ELSE Len(pager.calls) = 1

\* C20 witness: the run with page size 60 is over, after two requests
C20_Witness ==
    /\ TwoPageRun
    /\ pager.page_size = 60
    /\ pager.pc = "done"
    /\ pager.out = 60
    /\ Len(pager.calls) = 2

(***************************************************************************)
(* The filter builder.                                                     *)
(***************************************************************************)
\* the references that the calls of a log contributed, in call order
RECURSIVE Contributed(_)
Contributed(calls) ==
    IF Len(calls) = 0 THEN <<>>
    ELSE LET rest == Contributed(SubSeq(calls, 1, Len(calls) - 1))
             last == calls[Len(calls)]
         IN IF last.returned = 0 THEN rest ELSE Append(rest, last.returned)

\* the calls of the builder that returned, in call order
ReturnedCalls(b, at) == SelectSeq(SubSeq(b.calls, 1, at), LAMBDA c : c.returned # 0)

\* C21: build() returns one filter per add or convenience call that
\* returned, in call order, each the filter that the call constructed; and
\* the list is a copy: as long as the caller does not change that very list,
\* it holds the same filter objects in the same order as when it was built,
\* whatever is added to the builder and whatever is done to other built
\* lists (a filter dict that is edited in place is the same object still)
C21_BuildReturnsCallsInOrderAsCopy ==
    builder # None =>
        \A i \in DOMAIN builder.built :
            LET s == builder.built[i]
                made == ReturnedCalls(builder, s.at)
            IN /\ Len(s.built_refs) = Len(made)
               /\ s.built_refs = Contributed(SubSeq(builder.calls, 1, s.at))
               /\ \A k \in DOMAIN s.built_refs :
                     s.built_refs[k] \notin builder.mutated
                         => s.built_values[k] = made[k].made
               /\ ~s.changed =>
                     /\ s.refs = s.built_refs
                     /\ \A k \in DOMAIN s.refs :
                           s.refs[k] \notin builder.mutated
                               => builder.heap[s.refs[k]] = s.built_values[k]

\* a list of two filters built after two calls is as it was built although
\* the builder got a filter more since, a list built later was changed and
\* a filter was edited in place
C21_Witness ==
    /\ builder # None
    /\ Len(builder.built) = 2
    /\ Len(builder.built[1].built_refs) = 2
    /\ builder.built[1].at = 2
    /\ ~builder.built[1].changed
    /\ builder.built[2].changed
    /\ Len(builder.items) = 3
    /\ builder.mutated # {}

(***************************************************************************)
(* The offers listing and the failures of the client.                      *)
(***************************************************************************)
\* the pieces of a URL after its question mark, one per query parameter
\* (and the separators between them)
QueryOf(url) ==
    IF \E i \in DOMAIN url : url[i] = "?"
    THEN SubSeq(url, (CHOOSE i \in DOMAIN url : url[i] = "?") + 1, Len(url))
    ELSE <<>>

\* the texts a query parameter of the model can have as its value
ParamTexts == {"published", "5", "0", "true", "brief", "dev", "2"}

\* the query string has a parameter named key
HasParam(url, key) ==
    \E i \in DOMAIN QueryOf(url) :
        \E v \in ParamTexts : QueryOf(url)[i] = key \o "=" \o v

\* the served request calls the tool search_offers for the published offers
\* without a limit
ListsPublishedOffers(x) ==
    /\ IsCallTool(x)
    /\ IsObject(ParamsOf(x))
    /\ Field(ParamsOf(x), "name") = Str("search_offers")
    /\ IsObject(ArgumentsOf(x))
    /\ Field(ArgumentsOf(x), "state") = Str("published")
    /\ "limit" \notin DOMAIN ArgumentsOf(x).v

\* C22: listing the published offers without a limit, on a server with a
\* client, issues exactly one outbound call; its query string has
\* scope=published (or status=published) and no limit parameter
C22_PublishedOffersOneCallNoLimit ==
    (Called /\ client # None /\ ValidEnvelope(request)
            /\ ListsPublishedOffers(request)) =>
        /\ Len(outcome.calls) = 1
        /\ outcome.calls[1].method = "GET"
        /\ \/ Contains(QueryOf(outcome.calls[1].url), "scope=published")
           \/ Contains(QueryOf(outcome.calls[1].url), "status=published")
        /\ ~HasParam(outcome.calls[1].url, "limit")

\* C22 witness: such a listing was served with the descriptions asked for
\* and the remote API answered
C22_Witness ==
    /\ Called /\ client # None /\ ValidEnvelope(request)
    /\ ListsPublishedOffers(request)
    /\ Len(outcome.calls) = 1
    /\ outcome.calls[1].returned = RemotePayload
    /\ HasParam(outcome.calls[1].url, "include_description")

\* the offers list of a payload restricted to the offers of status s
RestrictedTo(payload, s) ==
    Obj([payload.v EXCEPT
            !.offers = Arr(SelectSeq(@.v, LAMBDA o : Field(o, "status") = s))])

\* list_offers was called with a status and a limit and nothing else
StatusAndLimit(inv) ==
    /\ inv.method = "list_offers"
    /\ inv.args.status # Null /\ inv.args.limit # Null
    /\ inv.args.state = Null /\ ~inv.args.include_description
    /\ inv.args.view_mode = Null /\ inv.args.offset = Null

\* C23: list_offers(status=s, limit=n) issues one GET to
\* {base_url}/c/{company_id}/offers?scope=s&limit=n with the bearer token
\* and the configured timeout, and returns the remote payload with its
\* offers restricted to those of status s
C23_StatusSentAsScopeAndFiltered ==
    (invocation # None /\ StatusAndLimit(invocation)) =>
        LET calls == invocation.result.calls
        IN /\ Len(calls) = 1
           /\ calls[1].method = "GET"
           /\ calls[1].url =
                 <<client.base_url, "/c/", client.company_id, "/", "offers", "?",
                   "scope=" \o invocation.args.status.v, "&",
                   "limit=" \o ToString(invocation.args.limit.v)>>
           /\ calls[1].authorization = <<"Bearer ", client.api_token>>
           /\ calls[1].timeout = client.timeout
           /\ (invocation.remote.kind = "body"
                 /\ "payload" \in DOMAIN invocation.remote) =>
                 /\ invocation.result.kind = "ok"
                 /\ invocation.result.value =
                       RestrictedTo(invocation.remote.payload,
                                    invocation.args.status)

\* C24: every failure of a client call is raised as a RecruiteeError or a
\* subtype of it: an API error with the status code for a non-2xx answer, a
\* connection error for a network failure, a RecruiteeError for a body that
\* is present but not valid JSON; no other exception type leaves _request;
\* an empty body is returned as an empty object
C24_OnlyRecruiteeErrorsLeaveRequest ==
    invocation # None =>
        LET r == invocation.result
            kind == invocation.remote.kind
        IN /\ r.kind = "raise" => IsRecruiteeError(r.type)
           /\ kind = "http_error" =>
                 /\ r.kind = "raise" /\ r.type = "RecruiteeAPIError"
                 /\ r.status_code = invocation.remote.status
           /\ kind \in {"url_error", "connect_timeout"} =>
                 r.kind = "raise" /\ r.type = "RecruiteeConnectionError"
           /\ kind = "invalid_json" =>
                 r.kind = "raise" /\ r.type = "RecruiteeError"
           /\ kind = "empty" => r.kind = "ok" /\ r.value = Obj(<<>>)

\* the timeout of the remote call expired while the served request was
\* handled
TimedOut == Served /\ outcome.caught # None /\ Contains(outcome.caught.msg, "timed out")

\* C25: when the timeout of a remote call expires, while connecting or
\* while reading, the call ends with a connection error, which the
\* dispatcher reports with code -32002
C25_TimeoutIsConnectionError ==
    TimedOut =>
        /\ outcome.caught.type = "RecruiteeConnectionError"
        /\ ErrorCode(response, -32002)

(***************************************************************************)
(* The shared server under concurrent requests.                            *)
(***************************************************************************)
\* C26: no dispatched request, on any interleaving of the worker threads,
\* changes the tool table of the server or the configuration of its client:
\* in every state list_tools answers with the catalog it had right after
\* construction
C26_DispatchKeepsToolsAndClient ==
    /\ [](ToolCatalog(tools) = _handle_list_tools)
    /\ [][tools' = tools /\ client' = client]_vars

\* C26 witness: a thread has dispatched a tool call and not yet written its
\* response while another thread is about to dispatch
C26_Witness ==
    /\ workers # None
    /\ \E v, w \in Workers :
          /\ v # w
          /\ workers[v].pc = "writing"
          /\ IsCallTool(workers[v].payload)
          /\ workers[w].pc = "dispatching"
    /\ ToolCatalog(tools) = _handle_list_tools

(***************************************************************************)
(* The request ids of the wrapper.                                         *)
(***************************************************************************)
\* the ids of the payloads that were sent or are built and about to be sent
PayloadIds ==
    [i \in DOMAIN wrapper.sent |-> wrapper.sent[i].id]
        \o SelectSeq([t \in Threads |-> wrapper.threads[t].payload_id],
                     LAMBDA id : id # 0)

\* C27: the ids that call_recruitee puts in its outbound payloads are
\* pairwise distinct across all calls, concurrent ones included
C27_PayloadIdsDistinct ==
    wrapper # None =>
        \A i, j \in DOMAIN PayloadIds : i # j => PayloadIds[i] # PayloadIds[j]

(***************************************************************************)
(* The cap of the pagination iterators.                                    *)
(***************************************************************************)
\* an iterator of page size >= 1 with a maximum record count
Capped(pg) == pg # None /\ pg.page_size >= 1 /\ pg.max_records # Null

\* max(M, 0) for the maximum record count M of a capped iterator
CapOf(pg) == IF pg.max_records.v > 0 THEN pg.max_records.v ELSE 0

\* C28: with page size >= 1 and maximum record count M, the items handed
\* out never exceed max(M, 0); every page request has the limit
\* min(page size, M - items handed out so far), which is at least 1; and no
\* request is made once M items are handed out (none at all when M <= 0),
\* also when the remote returns more items than the limit
C28_CapRespected ==
    Capped(pager) =>
        /\ pager.out <= CapOf(pager)
        /\ \A k \in DOMAIN pager.calls :
              /\ pager.calls[k].limit =
                    Min(pager.page_size,
                        pager.max_records.v - ReturnedBefore(pager.calls, k))
              /\ pager.calls[k].limit >= 1
              /\ ReturnedBefore(pager.calls, k) < pager.max_records.v
        /\ pager.max_records.v <= 0 => pager.calls = <<>>

\* C28 witness: the remote returned more items than the limit of the second
\* request, and the iterator ended with exactly M items handed out
C28_Witness ==
    /\ Capped(pager) /\ pager.source = None
    /\ pager.max_records.v = 3 /\ pager.page_size = 2
    /\ Len(pager.calls) = 2
    /\ pager.calls[1].returned = 2
    /\ pager.calls[2].limit = 1 /\ pager.calls[2].returned = 3
    /\ pager.out = 3 /\ pager.pc = "done"

\* the iterator has ended: its generator returned or an exception left it
Ended(pg) == pg.pc \in {"done", "raised"}

\* an iterator of page size >= 1 with a maximum record count M >= 0
CappedFromZero(pg) == Capped(pg) /\ pg.max_records.v >= 0

\* C29: with page size >= 1 and maximum record count M >= 0, the iteration
\* makes at most M page requests and ends, whatever the remote returns
C29_EndsWithinMRequests ==
    /\ [](CappedFromZero(pager) => Len(pager.calls) <= pager.max_records.v)
    /\ (CappedFromZero(pager) ~> Ended(pager))

\* C29 witness: with M = 3 and page size 1 the iteration ended after three
\* page requests, each answered with one item
C29_Witness ==
    /\ CappedFromZero(pager) /\ pager.source = None
    /\ pager.max_records.v = 3 /\ pager.page_size = 1
    /\ Ended(pager)
    /\ Len(pager.calls) = 3
    /\ \A k \in DOMAIN pager.calls : pager.calls[k].returned = 1
    /\ pager.out = 3

(***************************************************************************)
(* Tool calls that fail before the remote call.                            *)
(***************************************************************************)
\* the arguments object of a tool call, absent or null arguments read as {}
ArgumentsObject(x) ==
    IF IsObject(ArgumentsOf(x)) THEN ArgumentsOf(x) ELSE Obj(<<>>)

\* a call_tool request that names no registered tool, or leaves out what
\* the tool it names asks for before it turns to the client
FailsBeforeRemote(x) ==
    LET name == Field(ParamsOf(x), "name")
        a == ArgumentsObject(x)
    IN /\ IsCallTool(x)
       /\ ArgumentsOf(x) \in {Absent, Null} \/ IsObject(ArgumentsOf(x))
       /\ \/ name \notin {Str(n) : n \in RegisteredToolNames}
          \/ name = Str("get_offer") /\ Field(a, "offer_id") \in {Absent, Null}
          \/ name = Str("get_candidate")
                /\ Field(a, "candidate_id") \in {Absent, Null}
          \/ name = Str("search_candidates")
                /\ Field(a, "query") \in {Absent, Null, Str("")}
          \/ name = Str("create_candidate") /\ MissingOf(a) # {}

\* C30: a call_tool request that fails before the remote call is due (an
\* unknown tool name, get_offer without offer_id, get_candidate without
\* candidate_id, search_candidates without a non-empty query,
\* create_candidate without one of first_name, last_name, email) gets an
\* error response and makes no call of the remote client, whether or not
\* the server has a client
C30_EarlyFailureMakesNoRemoteCall ==
    (Called /\ FailsBeforeRemote(request)) =>
        /\ outcome.calls = <<>>
        /\ IsErrorResponse(response)

\* C30 witness: get_candidate without candidate_id on a server that has a
\* client was answered with an error and no call was made
C30_Witness ==
    /\ Called /\ FailsBeforeRemote(request) /\ client # None
    /\ Field(ParamsOf(request), "name") = Str("get_candidate")
    /\ IsObject(ArgumentsOf(request))
    /\ Field(ArgumentsOf(request), "candidate_id") = Null
    /\ outcome.calls = <<>>
    /\ ErrorCode(response, -32001)

====
